---- MODULE Spec2Model ----
(***************************************************************************)
(* CAIMF: the analytical pipeline of src/caimf (data_handler.py, models.py, *)
(* anomaly_detection.py) and the service state of src/caimf/api.py and      *)
(* src/caimf/dashboard.py.                                                  *)
(*                                                                          *)
(* Numbers.  The code computes in float64.  Here a finite number is a       *)
(* signed fixed-point decimal with 16 fractional digits, held as a          *)
(* magnitude in limbs of base 10^4 (TLC's integers are 32 bits wide, and    *)
(* the code's epsilon 1e-8 next to counts does not fit in them).  Every     *)
(* multiplication, division and square root truncates toward zero at the    *)
(* 16th fractional digit.  NaN and +-inf are values of their own and        *)
(* propagate as in IEEE arithmetic.                                         *)
(*                                                                          *)
(* The arms of a CASE are read in order, the first true guard deciding, as   *)
(* the if/elif chains of the code are.                                      *)
(*                                                                          *)
(* Strings that the code rewrites (strip, title, zfill, to_numeric) are     *)
(* sequences of one-character strings, so that the rewriting is computed.   *)
(***************************************************************************)
EXTENDS Integers, Sequences, FiniteSets, Bags, TLC

(***************************************************************************)
(* Natural numbers of any size: little-endian sequences of limbs < BASE,    *)
(* with no most-significant zero limb (zero is the empty sequence).         *)
(***************************************************************************)
BASE == 10^4

Limb(a, i) == IF i >= 1 /\ i <= Len(a) THEN a[i] ELSE 0

MinI(x, y) == IF x <= y THEN x ELSE y

MaxI(x, y) == IF x >= y THEN x ELSE y

\* the sequence f with every element evaluated
Tup(f) == f \o <<>>

\* TLC evaluates a definition of a LET where it is first used, inside
\* whatever is being evaluated there.  Steps(<<x1, ..., xn>>) uses the xi in
\* the order written, so that each is evaluated on its own, one after the
\* other, as the statements of the code are.
Steps(t) == Len(t) >= 0

\* Let([x \in {v} |-> e]) is e with x the value v, v evaluated first: the
\* statement x = v of the code followed by the statements after it
Let(f) == f[CHOOSE x \in DOMAIN f : TRUE]

\* the sum of the naturals f[x], x in DOMAIN f
SumInts(f) == BagCardinality([x \in DOMAIN f |-> f[x] + 1]) - Cardinality(DOMAIN f)

\* the position of the most significant nonzero limb, 0 for zero
Top(a) ==
  CHOOSE t \in 0..Len(a) : (t = 0 \/ a[t] # 0) /\ \A j \in (t + 1)..Len(a) : a[j] = 0

Canon(a) == SubSeq(a, 1, Top(a))

\* limbs at most 2 * BASE - 2 brought below BASE.  There is a carry into
\* limb i when some lower limb overflows and every limb between is full.
Ripple(s) ==
  Canon(Tup([i \in 1..(Len(s) + 1) |->
    (Limb(s, i)
       + (IF \E j \in 1..(i - 1) :
               s[j] >= BASE /\ \A k \in (j + 1)..(i - 1) : s[k] = BASE - 1
          THEN 1 ELSE 0)) % BASE]))

\* one pass of carries: every limb keeps its low part and takes the high
\* part of the limb below
Pass(c) ==
  Tup([i \in 1..(Len(c) + 1) |-> (Limb(c, i) % BASE) + (Limb(c, i - 1) \div BASE)])

BAdd(a, b) ==
  IF Len(a) = 0 THEN b
  ELSE Ripple(Tup([i \in 1..MaxI(Len(a), Len(b)) |-> Limb(a, i) + Limb(b, i)]))

\* the limb-wise differences d brought into 0..BASE-1, the whole not
\* negative.  There is a borrow into limb i when some lower limb is
\* negative and every limb between is zero.
Borrow(d) ==
  Canon(Tup([i \in 1..Len(d) |->
    (d[i] + BASE
       - (IF \E j \in 1..(i - 1) : d[j] < 0 /\ \A k \in (j + 1)..(i - 1) : d[k] = 0
          THEN 1 ELSE 0)) % BASE]))

\* a - b for a >= b
BSub(a, b) ==
  IF Len(b) = 0 THEN a ELSE Borrow(Tup([i \in 1..Len(a) |-> a[i] - Limb(b, i)]))

\* -1, 0, 1 as a < b, a = b, a > b
BCmp(a, b) ==
  CASE Len(a) < Len(b) -> -1
    [] Len(a) > Len(b) -> 1
    [] Len(a) = Len(b) /\ a = b -> 0
    [] OTHER ->
       LET t == CHOOSE i \in 1..Len(a) :
                  a[i] # b[i] /\ \A j \in (i + 1)..Len(a) : a[j] = b[j]
       IN  IF a[t] < b[t] THEN -1 ELSE 1

\* a * d for 0 <= d < BASE
BMulSmall(a, d) == Ripple(Pass(Tup([i \in 1..Len(a) |-> a[i] * d])))

Zeros(k) == [i \in 1..k |-> 0]

\* a * BASE^k
BShl(a, k) == IF Len(a) = 0 THEN a ELSE Zeros(k) \o a

\* a \div BASE^k
BShr(a, k) == IF Len(a) <= k THEN <<>> ELSE SubSeq(a, k + 1, Len(a))

\* the schoolbook product: column k holds the sum of the a[i] * b[k + 1 - i]
BMul(a, b) ==
  IF Len(a) = 0 \/ Len(b) = 0 THEN <<>>
  ELSE Ripple(Pass(Pass(Tup([k \in 1..(Len(a) + Len(b) - 1) |->
         SumInts([i \in MaxI(1, k + 1 - Len(b))..MinI(Len(a), k) |->
                    a[i] * b[k + 1 - i]])]))))

\* the estimate of a quotient limb from the top limbs of the remainder r and
\* of the divisor b: at most 2 too large
QHat(r, b) ==
  MinI(BASE - 1, (Limb(r, Len(b) + 1) * BASE + Limb(r, Len(b))) \div b[Len(b)])

\* the multiple p of b brought one b down when it exceeds r
Fit(p, b, r) == IF BCmp(p, r) <= 0 THEN p ELSE BSub(p, b)

\* One step of the long division by b (the top limb of b at least
\* BASE \div 2): the limb ai is brought down to the running remainder st.r,
\* and the quotient limb found is put before st.acc.
BDivStep(ai, b, st) ==
  Let([r1 \in {Canon(<<ai>> \o st.r)} |->
  Let([p0 \in {BMulSmall(b, QHat(r1, b))} |->
  Let([p1 \in {Fit(p0, b, r1)} |->
  Let([p2 \in {Fit(p1, b, r1)} |->
    [r   |-> BSub(r1, p2),
     acc |-> <<QHat(r1, b) - (IF p1 = p0 THEN 0 ELSE 1) - (IF p2 = p1 THEN 0 ELSE 1)>>
               \o st.acc]])])])])

\* the limbs of a taken from limb i downward
RECURSIVE BDivAt(_, _, _, _)
BDivAt(a, b, i, st) ==
  IF i = 0 THEN st.acc
  ELSE Let([st1 \in {BDivStep(a[i], b, st)} |-> BDivAt(a, b, i - 1, st1)])

\* a1 \div b1, the top limb of b1 at least BASE \div 2
BDivNorm(a1, b1) ==
  CASE Steps(<<a1, b1>>) ->
    IF Len(a1) < Len(b1) THEN <<>>
    ELSE Canon(BDivAt(a1, b1, Len(a1) - Len(b1) + 1,
                      [r |-> SubSeq(a1, Len(a1) - Len(b1) + 2, Len(a1)), acc |-> <<>>]))

\* a \div b for b > 0
BDiv(a, b) ==
  BDivNorm(BMulSmall(a, BASE \div (b[Len(b)] + 1)), BMulSmall(b, BASE \div (b[Len(b)] + 1)))

\* the integer square root of n < BASE * BASE, hundreds then units
ISqrtInt(n) ==
  LET h == CHOOSE x \in 0..99 :
             (100 * x) * (100 * x) <= n /\ (100 * x + 100) * (100 * x + 100) > n
      l == CHOOSE x \in 0..99 :
             /\ (100 * h + x) * (100 * h + x) <= n
             /\ (100 * h + x + 1) * (100 * h + x + 1) > n
  IN  100 * h + l

\* a \div 2
BHalf(a) == BShr(BMulSmall(a, BASE \div 2), 1)

\* the natural number k < BASE^3 (a TLC integer) as limbs
BNat(k) == Canon(<<k % BASE, (k \div BASE) % BASE, k \div (BASE * BASE)>>)

\* Newton's iteration from above
RECURSIVE BSqrtNewton(_, _)
BSqrtNewton(n, x) ==
  Let([y \in {BHalf(BAdd(x, BDiv(n, x)))} |->
    IF BCmp(y, x) >= 0 THEN x ELSE BSqrtNewton(n, y)])

\* the integer square root of n; the first guess, from the top two limbs, is
\* above the root
BSqrt(n) ==
  IF Len(n) = 0 THEN <<>>
  ELSE IF Len(n) = 1 THEN Canon(<<ISqrtInt(n[1])>>)
  ELSE BSqrtNewton(n,
         BShl(BNat((ISqrtInt(n[Len(n)] * BASE + n[Len(n) - 1]) + 1)
                     * (IF Len(n) % 2 = 0 THEN 1 ELSE 100)),
              (Len(n) - 2) \div 2))

\* 10^n as limbs
Pow10(n) == Zeros(n \div 4) \o <<10^(n % 4)>>

(***************************************************************************)
(* float64 values: [k, s, m] with k one of "num" (finite, s * m / UNIT),    *)
(* "nan", "inf" (s * infinity).  A string cell of a table has k = "str"     *)
(* and m its characters, so that every cell of a table is a record of the   *)
(* same shape.                                                              *)
(***************************************************************************)
UNIT == <<0, 0, 0, 0, 1>>

FRAC == Len(UNIT) - 1

Num(s, m) == [k |-> "num", s |-> IF Len(m) = 0 THEN 1 ELSE s, m |-> m]

NaN == [k |-> "nan", s |-> 1, m |-> <<>>]

Inf(s) == [k |-> "inf", s |-> s, m |-> <<>>]

Str(chars) == [k |-> "str", s |-> 1, m |-> chars]

IsNaN(x) == x.k = "nan"

IsNum(x) == x.k = "num"

IsStr(x) == x.k = "str"

\* pandas isna(): NaN (a missing cell of any column)
IsNull(x) == x.k = "nan"

\* the integer n as a float
F(n) == Num(IF n < 0 THEN -1 ELSE 1, BShl(BNat(IF n < 0 THEN -n ELSE n), FRAC))

FZero == F(0)

FOne == F(1)

FNeg(x) == IF x.k = "num" THEN Num(-x.s, x.m)
           ELSE IF x.k = "inf" THEN Inf(-x.s) ELSE x

FAbs(x) == IF x.k = "num" THEN Num(1, x.m)
           ELSE IF x.k = "inf" THEN Inf(1) ELSE x

FAdd(x, y) ==
  CASE x.k = "nan" \/ y.k = "nan" -> NaN
    [] x.k = "inf" -> (IF y.k = "inf" /\ y.s # x.s THEN NaN ELSE x)
    [] y.k = "inf" -> y
    [] x.s = y.s -> Num(x.s, BAdd(x.m, y.m))
    [] BCmp(x.m, y.m) >= 0 -> Num(x.s, BSub(x.m, y.m))
    [] OTHER -> Num(y.s, BSub(y.m, x.m))

FSub(x, y) == FAdd(x, FNeg(y))

FMul(x, y) ==
  CASE x.k = "nan" \/ y.k = "nan" -> NaN
    [] x.k = "inf" \/ y.k = "inf" ->
         (IF (x.k = "num" /\ Len(x.m) = 0) \/ (y.k = "num" /\ Len(y.m) = 0)
          THEN NaN ELSE Inf(x.s * y.s))
    [] OTHER -> Num(x.s * y.s, BShr(BMul(x.m, y.m), FRAC))

FDiv(x, y) ==
  CASE x.k = "nan" \/ y.k = "nan" -> NaN
    [] x.k = "inf" -> (IF y.k = "inf" THEN NaN ELSE Inf(x.s * y.s))
    [] y.k = "inf" -> FZero
    [] Len(y.m) = 0 -> (IF Len(x.m) = 0 THEN NaN ELSE Inf(x.s))
    [] OTHER -> Num(x.s * y.s, BDiv(BShl(x.m, FRAC), y.m))

FSqrt(x) ==
  CASE x.k = "nan" -> NaN
    [] x.k = "inf" -> (IF x.s = 1 THEN x ELSE NaN)
    [] x.s = -1 -> NaN
    [] OTHER -> Num(1, BSqrt(BShl(x.m, FRAC)))

\* -1, 0, 1 for x < y, x = y, x > y; neither is NaN
FCmp(x, y) ==
  CASE x.k = "inf" -> (IF y.k = "inf" /\ y.s = x.s THEN 0 ELSE x.s)
    [] y.k = "inf" -> -y.s
    [] x.s # y.s -> x.s
    [] OTHER -> x.s * BCmp(x.m, y.m)

\* the comparisons of IEEE arithmetic: false when either side is NaN
FLt(x, y) == x.k # "nan" /\ y.k # "nan" /\ FCmp(x, y) < 0

FLe(x, y) == x.k # "nan" /\ y.k # "nan" /\ FCmp(x, y) <= 0

FGt(x, y) == FLt(y, x)

FGe(x, y) == FLe(y, x)

\* n / 10^d, the decimal literal (0.35 is Dec(35, 2), 1e-8 is Dec(1, 8))
Dec(n, d) ==
  Num(IF n < 0 THEN -1 ELSE 1,
      BShl(BMulSmall(BNat(IF n < 0 THEN -n ELSE n), 10^((4 * FRAC - d) % 4)),
           (4 * FRAC - d) \div 4))

\* Series.clip(lo, hi): NaN stays NaN
FClip(x, lo, hi) ==
  CASE x.k = "nan" -> x
    [] FLt(x, lo) -> lo
    [] FGt(x, hi) -> hi
    [] OTHER -> x

(***************************************************************************)
(* Series reductions of pandas (they skip NaN).                             *)
(***************************************************************************)
Range(f) == {f[i] : i \in DOMAIN f}

Map(f, Op(_)) == Tup([i \in 1..Len(f) |-> Op(f[i])])

SetMax(S) == CHOOSE x \in S : \A y \in S : y <= x

SetMin(S) == CHOOSE x \in S : \A y \in S : x <= y

NotNaN(x) == x.k # "nan"

DropNaN(xs) == SelectSeq(xs, NotNaN)

\* the sum of the magnitudes of the finite values of sign sg in v, limb
\* column by limb column
MagSum(v, sg) ==
  LET idx == {j \in 1..Len(v) : v[j].k = "num" /\ v[j].s = sg}
      w   == IF idx = {} THEN 0 ELSE SetMax({Len(v[j].m) : j \in idx})
  IN  Ripple(Pass(Tup([i \in 1..w |-> SumInts([j \in idx |-> Limb(v[j].m, i)])])))

\* P - N as a float
Signed(P, N) ==
  CASE Steps(<<P, N>>) ->
    IF BCmp(P, N) >= 0 THEN Num(1, BSub(P, N)) ELSE Num(-1, BSub(N, P))

HasInf(v, sg) == \E j \in 1..Len(v) : v[j].k = "inf" /\ v[j].s = sg

\* the sum of the values v, none of them NaN
SumOf(v) ==
  CASE HasInf(v, 1) /\ HasInf(v, -1) -> NaN
    [] HasInf(v, 1) -> Inf(1)
    [] HasInf(v, -1) -> Inf(-1)
    [] OTHER -> Signed(MagSum(v, 1), MagSum(v, -1))

\* Series.sum(): 0 for no value
SSum(xs) == SumOf(DropNaN(xs))

\* Series.max(), Series.min(): NaN for no value
SMax(xs) ==
  LET v == DropNaN(xs)
  IN  IF Len(v) = 0 THEN NaN
      ELSE v[CHOOSE i \in 1..Len(v) : \A j \in 1..Len(v) : FCmp(v[i], v[j]) >= 0]

SMin(xs) ==
  LET v == DropNaN(xs)
  IN  IF Len(v) = 0 THEN NaN
      ELSE v[CHOOSE i \in 1..Len(v) : \A j \in 1..Len(v) : FCmp(v[i], v[j]) <= 0]

\* Series.mean()
SMean(xs) ==
  IF Len(DropNaN(xs)) = 0 THEN NaN
  ELSE FDiv(SumOf(DropNaN(xs)), F(Len(DropNaN(xs))))

\* Series.var(ddof): the sum of squared deviations from the mean over
\* n - ddof; NaN for n <= ddof
SVarD(xs, ddof) ==
  IF Len(DropNaN(xs)) <= ddof THEN NaN
  ELSE Let([v \in {DropNaN(xs)} |->
       Let([mu \in {FDiv(SumOf(v), F(Len(v)))} |->
       Let([dv \in {Tup([i \in 1..Len(v) |-> FSub(v[i], mu)])} |->
         FDiv(SumOf(Tup([i \in 1..Len(v) |-> FMul(dv[i], dv[i])])), F(Len(v) - ddof))])])])

\* Series.var(), Series.std(): ddof = 1
SVar(xs) == SVarD(xs, 1)

SStdD(xs, ddof) == FSqrt(SVarD(xs, ddof))

SStd(xs) == SStdD(xs, 1)

\* x.rolling(window, min_periods=1), the window ending at position i
Window(xs, window, i) == SubSeq(xs, MaxI(1, i - window + 1), i)

\* x.rolling(window, min_periods=1).std()
RollingStd(xs, window) ==
  Tup([i \in 1..Len(xs) |->
         IF Len(DropNaN(Window(xs, window, i))) < 1 THEN NaN
         ELSE SStd(Window(xs, window, i))])

(***************************************************************************)
(* str: sequences of one-character strings.                                 *)
(***************************************************************************)
LOWERCASE == <<"a", "b", "c", "d", "e", "f", "g", "h", "i", "j", "k", "l", "m",
               "n", "o", "p", "q", "r", "s", "t", "u", "v", "w", "x", "y", "z">>

UPPERCASE == <<"A", "B", "C", "D", "E", "F", "G", "H", "I", "J", "K", "L", "M",
               "N", "O", "P", "Q", "R", "S", "T", "U", "V", "W", "X", "Y", "Z">>

DIGITS == <<"0", "1", "2", "3", "4", "5", "6", "7", "8", "9">>

WHITESPACE == {" ", "\t", "\n"}

IndexOf(seq, c) == IF \E i \in DOMAIN seq : seq[i] = c
                   THEN CHOOSE i \in DOMAIN seq : seq[i] = c
                   ELSE 0

IsCased(c) == IndexOf(LOWERCASE, c) > 0 \/ IndexOf(UPPERCASE, c) > 0

ToUpper(c) == IF IndexOf(LOWERCASE, c) > 0 THEN UPPERCASE[IndexOf(LOWERCASE, c)] ELSE c

ToLower(c) == IF IndexOf(UPPERCASE, c) > 0 THEN LOWERCASE[IndexOf(UPPERCASE, c)] ELSE c

\* str.strip()
Strip(cs) ==
  LET ns == {i \in 1..Len(cs) : cs[i] \notin WHITESPACE}
  IN  IF ns = {} THEN <<>> ELSE SubSeq(cs, SetMin(ns), SetMax(ns))

\* str.title(): a cased character is upper after an uncased one (or at the
\* start) and lower after a cased one
Title(cs) ==
  Tup([i \in 1..Len(cs) |->
         IF i > 1 /\ IsCased(cs[i - 1]) THEN ToLower(cs[i]) ELSE ToUpper(cs[i])])

\* str.zfill(width)
ZFill(cs, width) ==
  IF Len(cs) >= width THEN cs ELSE [i \in 1..(width - Len(cs)) |-> "0"] \o cs

\* str(n) for an integer 0 <= n < 10^9
IntStr(n) ==
  LET d == CHOOSE e \in 1..9 : n < 10^e /\ (e = 1 \/ n >= 10^(e - 1))
  IN  Tup([i \in 1..d |-> DIGITS[((n \div 10^(d - i)) % 10) + 1]])

\* the characters in code-point order, for the comparison of strings
ASCII == <<"\t", "\n", " ", "+", "-", ".">> \o DIGITS \o UPPERCASE \o <<"_">> \o LOWERCASE

Ord(c) == IndexOf(ASCII, c)

\* -1, 0, 1 as a < b, a = b, a > b in the order of str
StrCmp(a, b) ==
  LET df == {i \in 1..MinI(Len(a), Len(b)) : a[i] # b[i]}
  IN  CASE df # {} -> (IF Ord(a[SetMin(df)]) < Ord(b[SetMin(df)]) THEN -1 ELSE 1)
        [] Len(a) < Len(b) -> -1
        [] Len(a) > Len(b) -> 1
        [] OTHER -> 0

\* the order of two cells of one column: strings by code point, numbers
\* by value
CellCmp(x, y) == IF x.k = "str" THEN StrCmp(x.m, y.m) ELSE FCmp(x, y)

\* the integer part of a finite x >= 0, below BASE * BASE
IntOf(x) == LET n == BShr(x.m, FRAC) IN Limb(n, 1) + BASE * Limb(n, 2)

\* the natural number written by the decimal digits cs: limb j holds the
\* four digits from the (4j-3)-th on, counted from the right
DigitsNat(cs) ==
  LET L == Len(cs)
      Digit(p) == IF p < L THEN IndexOf(DIGITS, cs[L - p]) - 1 ELSE 0
  IN  Canon(Tup([j \in 1..((L + 3) \div 4) |->
        Digit(4 * j - 4) + 10 * Digit(4 * j - 3)
          + 100 * Digit(4 * j - 2) + 1000 * Digit(4 * j - 1)]))

\* the text after its sign
Unsigned(cs) == IF Len(cs) > 0 /\ cs[1] \in {"-", "+"} THEN Tail(cs) ELSE cs

IsDigits(cs) == \A i \in DOMAIN cs : IndexOf(DIGITS, cs[i]) > 0

\* float(text): [sign] digits [. digits]; anything else does not parse
ParseFloat(cs) ==
  Let([body \in {Unsigned(cs)} |->
  Let([dot \in {IndexOf(body, ".")} |->
  Let([ip \in {IF dot = 0 THEN body ELSE SubSeq(body, 1, dot - 1)} |->
  Let([fp \in {IF dot = 0 THEN <<>> ELSE SubSeq(body, dot + 1, Len(body))} |->
    IF Len(ip) + Len(fp) = 0 \/ ~IsDigits(ip) \/ ~IsDigits(fp) THEN NaN
    ELSE Num(IF cs[1] = "-" THEN -1 ELSE 1,
             BDiv(BShl(DigitsNat(ip \o fp), FRAC), Pow10(Len(fp))))])])])])

(***************************************************************************)
(* DataFrame: the ordered column names, the index labels and the rows, a    *)
(* row a function from column name to cell.  float is the set of columns    *)
(* of dtype float64 among Year and Month (read_csv makes a column of        *)
(* integers with a missing value float64, and str() of it ends in ".0").    *)
(* None is the absent table.                                                *)
(***************************************************************************)
\* A table value is built eagerly, as pandas builds a frame: every row and the
\* row list are evaluated when the frame is made.
Eager(f) == f @@ <<>>

DF(cols, float, index, rows) ==
  [none |-> FALSE, cols |-> Eager(cols), float |-> float, index |-> Eager(index),
   rows |-> Eager([i \in DOMAIN rows |-> Eager(rows[i])])]

None == [none |-> TRUE, cols |-> <<>>, float |-> {}, index |-> <<>>, rows |-> <<>>]

Columns(df) == Range(df.cols)

NRows(df) == Len(df.rows)

\* df[c] as a sequence of cells
Col(df, c) == Tup([i \in 1..Len(df.rows) |-> df.rows[i][c]])

\* the rows at the positions pos (df[mask], df.iloc[pos])
Take(df, pos) ==
  DF(df.cols, df.float, [i \in 1..Len(pos) |-> df.index[pos[i]]],
     [i \in 1..Len(pos) |-> df.rows[pos[i]]])

\* the positions 1..n that satisfy Keep, in order
Positions(n, Keep(_)) == SelectSeq(Tup([i \in 1..n |-> i]), Keep)

\* df[c] = vals: an existing column keeps its place, a new one goes last
Assign(df, c, vals) ==
  LET v == Tup(vals)
  IN  CASE Steps(<<df, v>>) ->
        DF(IF c \in Columns(df) THEN df.cols ELSE Append(df.cols, c),
           df.float, df.index,
           [i \in 1..Len(df.rows) |->
              [d \in Columns(df) \cup {c} |-> IF d = c THEN v[i] ELSE df.rows[i][d]]])

\* df[[c1, ..., cn]]
Project(df, cols) ==
  DF(cols, df.float \cap Range(cols), df.index,
     [i \in 1..Len(df.rows) |-> [d \in Range(cols) |-> df.rows[i][d]]])

\* df.dropna(subset)
DropNA(df, subset) ==
  Take(df, Positions(NRows(df), LAMBDA i : \A c \in subset : ~IsNull(df.rows[i][c])))

\* the key of row i under the grouping columns keys
KeyOf(df, keys, i) == Tup([j \in 1..Len(keys) |-> df.rows[i][keys[j]]])

\* groupby(keys) drops the rows with a missing key
HasKey(df, keys, i) == \A j \in 1..Len(keys) : ~IsNull(df.rows[i][keys[j]])

\* the positions of the group of row i, in table order
GroupOf(df, keys, i) ==
  Positions(NRows(df), LAMBDA j : HasKey(df, keys, j) /\ KeyOf(df, keys, j) = KeyOf(df, keys, i))

\* the place of position i in the sequence of positions g
PlaceIn(g, i) == CHOOSE p \in 1..Len(g) : g[p] = i

\* groupby(keys)[c].transform(Fn): Fn maps the series of a group to a
\* series of the same length; a row with a missing key gets NaN.  Fn is
\* applied once to each group, at its first row.
Transform(df, keys, c, Fn(_)) ==
  Let([g \in {Tup([i \in 1..NRows(df) |->
              IF HasKey(df, keys, i) THEN GroupOf(df, keys, i) ELSE <<>>])} |->
  Let([fn \in {Tup([i \in 1..NRows(df) |->
              IF Len(g[i]) > 0 /\ g[i][1] = i
              THEN Tup(Fn(Tup([p \in 1..Len(g[i]) |-> df.rows[g[i][p]][c]])))
              ELSE <<>>])} |->
    Tup([i \in 1..NRows(df) |->
           IF Len(g[i]) = 0 THEN NaN ELSE fn[g[i][1]][PlaceIn(g[i], i)]])])])

\* the order of two keys, column by column
KeyCmp(a, b) ==
  LET df == {j \in 1..Len(a) : CellCmp(a[j], b[j]) # 0}
  IN  IF df = {} THEN 0 ELSE CellCmp(a[SetMin(df)], b[SetMin(df)])

\* df.sort_values(keys): the rows in ascending key order, equal keys in
\* their order in df
SortValues(df, keys) ==
  Let([key \in {Tup([i \in 1..NRows(df) |-> KeyOf(df, keys, i)])} |->
  Let([rank \in {Tup([i \in 1..NRows(df) |->
              Cardinality({j \in 1..NRows(df) :
                 \/ KeyCmp(key[j], key[i]) < 0
                 \/ KeyCmp(key[j], key[i]) = 0 /\ j < i}) + 1])} |->
    Take(df, Tup([r \in 1..NRows(df) |-> CHOOSE i \in 1..NRows(df) : rank[i] = r]))])])

(***************************************************************************)
(* A call: the object's fields after it, the argument table after it, the   *)
(* value returned and the exception raised ("none" when it returns).        *)
(***************************************************************************)
Ret(self, arg, ret) == [self |-> self, arg |-> arg, ret |-> ret, exc |-> "none"]

Raise(self, arg, exc) == [self |-> self, arg |-> arg, ret |-> None, exc |-> exc]

\* the 1e-8 that guards the divisions
EPS == Dec(1, 8)

(***************************************************************************)
(* data_handler.py: class DataHandler                                       *)
(***************************************************************************)
REQUIRED_COLUMNS == <<"Year", "Month", "State", "District", "Age_Group", "Enrolment_Count">>

S_Child == <<"C", "h", "i", "l", "d">>

S_Children == <<"C", "h", "i", "l", "d", "r", "e", "n">>

S_Adult == <<"A", "d", "u", "l", "t">>

S_Adults == <<"A", "d", "u", "l", "t", "s">>

S_AndamanAnd == <<"A", "n", "d", "a", "m", "a", "n", " ", "A", "n", "d", " ", "N", "i", "c", "o", "b", "a", "r">>

S_Andaman == <<"A", "n", "d", "a", "m", "a", "n", " ", "a", "n", "d", " ", "N", "i", "c", "o", "b", "a", "r">>

S_DadraAnd == <<"D", "a", "d", "r", "a", " ", "A", "n", "d", " ", "N", "a", "g", "a", "r", " ", "H", "a", "v", "e", "l", "i">>

S_Dadra == <<"D", "a", "d", "r", "a", " ", "a", "n", "d", " ", "N", "a", "g", "a", "r", " ", "H", "a", "v", "e", "l", "i">>

S_DamanAnd == <<"D", "a", "m", "a", "n", " ", "A", "n", "d", " ", "D", "i", "u">>

S_Daman == <<"D", "a", "m", "a", "n", " ", "a", "n", "d", " ", "D", "i", "u">>

\* DataHandler(): the fields set by __init__
DataHandlerInit == [raw_data |-> None, clean_data |-> None, normalized_data |-> None]

\* load_csv: read_csv(file_path) gave df, None when there is no such file
load_csv(self, df) ==
  IF df.none THEN Raise(self, df, "FileNotFoundError")
  ELSE Ret([self EXCEPT !.raw_data = df], df, df)

\* a variant of validate_schema that raises on a missing column
validate_schema_strict(self, df) ==
  LET missing_cols == SelectSeq(REQUIRED_COLUMNS, LAMBDA c : c \notin Columns(df))
  IN  IF Len(missing_cols) > 0 THEN Raise(self, df, "ValueError") ELSE Ret(self, df, TRUE)

validate_schema(self, df) ==
  LET missing_cols == SelectSeq(REQUIRED_COLUMNS, LAMBDA c : c \notin Columns(df))
  IN  IF Len(missing_cols) > 0 THEN Ret(self, df, FALSE) ELSE Ret(self, df, TRUE)

\* Series.str.strip().str.title() on one cell: a missing cell stays missing
StripTitle(x) == IF IsStr(x) THEN Str(Title(Strip(x.m))) ELSE NaN

\* the replace() of step 3
ReplaceState(x) ==
  IF x = Str(S_AndamanAnd) THEN Str(S_Andaman)
  ELSE IF x = Str(S_DadraAnd) THEN Str(S_Dadra)
  ELSE IF x = Str(S_DamanAnd) THEN Str(S_Daman)
  ELSE x

\* a variant of ReplaceAgeGroup that knows the plural labels only and works
\* as Series.map does: a label that is no key of the map becomes missing
ReplaceAgeGroupPlural(x) ==
  IF x = Str(S_Children) THEN Str(S_Child)
  ELSE IF x = Str(S_Adults) THEN Str(S_Adult)
  ELSE NaN

\* the replace(age_group_map) of step 5
ReplaceAgeGroup(x) ==
  IF x = Str(S_Child) THEN Str(S_Child)
  ELSE IF x = Str(S_Children) THEN Str(S_Child)
  ELSE IF x = Str(S_Adult) THEN Str(S_Adult)
  ELSE IF x = Str(S_Adults) THEN Str(S_Adult)
  ELSE x

\* a variant of ToNumeric that takes every text for no number
ToNumericNoText(x) == IF IsStr(x) THEN NaN ELSE x

\* pd.to_numeric(errors='coerce') on one cell
ToNumeric(x) == IF IsStr(x) THEN ParseFloat(x.m) ELSE x

\* Series.astype(str) on one cell of Year or Month (whole, >= 0)
AsStr(x, isfloat) == IntStr(IntOf(x)) \o (IF isfloat THEN <<".", "0">> ELSE <<>>)

Where(df, Keep(_)) == Take(df, Positions(NRows(df), LAMBDA i : Keep(df.rows[i])))

\* the column c is one of texts (dtype object), as read_csv typed it:
\* Series.str on a float64 column raises AttributeError.  The filters and
\* the assignments of cleaning keep the type of a column
IsText(df, c) == c \notin df.float

clean_data_pipeline(self, df) ==
  IF ~({"Year", "Month", "State", "District", "Enrolment_Count"} \subseteq Columns(df))
    THEN Raise(self, df, "KeyError")
  ELSE IF ~IsText(df, "State") \/ ~IsText(df, "District") THEN Raise(self, df, "AttributeError")
  ELSE IF "Age_Group" \notin Columns(df) THEN Raise(self, df, "KeyError")
  ELSE IF ~IsText(df, "Age_Group") THEN Raise(self, df, "AttributeError")
  ELSE
  Let([d1 \in {DropNA(df, {"Year", "Month"})} |->
  Let([d2 \in {Where(d1, LAMBDA r : FGe(r["Year"], F(2010)) /\ FLe(r["Year"], F(2026)))} |->
  Let([d3 \in {Where(d2, LAMBDA r : FGe(r["Month"], F(1)) /\ FLe(r["Month"], F(12)))} |->
  Let([d4 \in {DropNA(d3, {"State", "District", "Enrolment_Count"})} |->
  Let([d5 \in {Assign(d4, "State",
              Map(Col(d4, "State"), LAMBDA x : ReplaceState(StripTitle(x))))} |->
  Let([d6 \in {Assign(d5, "District", Map(Col(d5, "District"), StripTitle))} |->
  Let([d7 \in {Assign(d6, "Age_Group",
              Map(Col(d6, "Age_Group"), LAMBDA x : ReplaceAgeGroup(StripTitle(x))))} |->
  Let([d8 \in {Assign(d7, "Enrolment_Count", Map(Col(d7, "Enrolment_Count"), ToNumeric))} |->
  Let([d9 \in {Where(d8, LAMBDA r : FGe(r["Enrolment_Count"], FZero))} |->
  Let([d10 \in {Assign(d9, "YearMonth",
              [i \in 1..NRows(d9) |->
                 Str(AsStr(d9.rows[i]["Year"], "Year" \in d9.float) \o <<"-">>
                     \o ZFill(AsStr(d9.rows[i]["Month"], "Month" \in d9.float), 2))])} |->

    Ret([self EXCEPT !.clean_data = d10], df, d10)])])])])])])])])])])

\* (x - x.mean()) / (x.std() + 1e-8) of one group
ZScore(x) ==
  Let([mean \in {SMean(x)} |->
  Let([std \in {FAdd(SStd(x), EPS)} |->
    [p \in 1..Len(x) |-> FDiv(FSub(x[p], mean), std)]])])

\* (x - x.min()) / (x.max() - x.min() + 1e-8) of one group
MinMax(x) ==
  Let([min \in {SMin(x)} |->
  Let([rng \in {FAdd(FSub(SMax(x), min), EPS)} |->
    [p \in 1..Len(x) |-> FDiv(FSub(x[p], min), rng)]])])

NORMALIZE_KEYS == <<"State", "District", "Age_Group">>

normalize_data(self, df) ==
  IF ~({"State", "District", "Age_Group", "Enrolment_Count"} \subseteq Columns(df))
  THEN Raise(self, df, "KeyError")
  ELSE
  Let([d1 \in {Assign(df, "Enrolment_ZScore",
              Transform(df, NORMALIZE_KEYS, "Enrolment_Count", ZScore))} |->
  Let([d2 \in {Assign(d1, "Enrolment_MinMax",
              Transform(d1, NORMALIZE_KEYS, "Enrolment_Count", MinMax))} |->
    Ret([self EXCEPT !.normalized_data = d2], df, d2)])])

S_Senior == <<"S", "e", "n", "i", "o", "r">>

\* the column that pivot_table names after an Age_Group label (a column
\* name is a string of the model, a label a sequence of characters); the
\* labels other than these three share one column
LabelColumn(x) ==
  IF x = Str(S_Child) THEN "Child"
  ELSE IF x = Str(S_Adult) THEN "Adult"
  ELSE IF x = Str(S_Senior) THEN "Senior"
  ELSE "Other"

\* the elements of the set S in ascending order of Cmp
SortSet(S, Cmp(_, _)) ==
  [r \in 1..Cardinality(S) |->
     CHOOSE x \in S : Cardinality({y \in S : Cmp(y, x) < 0}) = r - 1]

\* a change that is 0 at the first period
PctChangeFromZero(x) ==
  [p \in 1..Len(x) |-> IF p = 1 THEN FZero ELSE FSub(FDiv(x[p], x[p - 1]), FOne)]

\* Series.pct_change() within one group
PctChange(x) ==
  [p \in 1..Len(x) |-> IF p = 1 THEN NaN ELSE FSub(FDiv(x[p], x[p - 1]), FOne)]

PIVOT_INDEX == <<"Year", "Month", "State", "District">>

\* a pivot with the mean of the cell in place of the sum
PivotCellMean(df, used, grp, c) ==
  Let([sel \in {Positions(NRows(df),
         LAMBDA i : /\ i \in used
                    /\ KeyOf(df, PIVOT_INDEX, i) = grp
                    /\ LabelColumn(df.rows[i]["Age_Group"]) = c)} |->
    IF Len(sel) = 0 THEN FZero
    ELSE SMean([p \in 1..Len(sel) |-> df.rows[sel[p]]["Enrolment_Count"]])])

\* a pivot with the first count of the cell in place of the sum
PivotCellFirst(df, used, grp, c) ==
  Let([sel \in {Positions(NRows(df),
         LAMBDA i : /\ i \in used
                    /\ KeyOf(df, PIVOT_INDEX, i) = grp
                    /\ LabelColumn(df.rows[i]["Age_Group"]) = c)} |->
    IF Len(sel) = 0 THEN FZero
    ELSE df.rows[sel[1]]["Enrolment_Count"]])

\* the sum of Enrolment_Count over the rows among used with the key grp and
\* an Age_Group of column c; fill_value for no such row
PivotCell(df, used, grp, c) ==
  Let([sel \in {Positions(NRows(df),
         LAMBDA i : /\ i \in used
                    /\ KeyOf(df, PIVOT_INDEX, i) = grp
                    /\ LabelColumn(df.rows[i]["Age_Group"]) = c)} |->
    IF Len(sel) = 0 THEN FZero
    ELSE SSum([p \in 1..Len(sel) |-> df.rows[sel[p]]["Enrolment_Count"]])])

\* df.pivot_table(index=[Year, Month, State, District], columns=Age_Group,
\* values=Enrolment_Count, aggfunc='sum', fill_value=0).reset_index(): the
\* rows with a missing key or a missing Age_Group take no part
PivotTable(df) ==
  Let([used \in {{i \in 1..NRows(df) : HasKey(df, Append(PIVOT_INDEX, "Age_Group"), i)}} |->
  Let([grps \in {Tup(SortSet({KeyOf(df, PIVOT_INDEX, i) : i \in used}, KeyCmp))} |->
  Let([acol \in {Map(Tup(SortSet({df.rows[i]["Age_Group"] : i \in used}, CellCmp)), LabelColumn)} |->

    DF(PIVOT_INDEX \o acol, df.float, [g \in 1..Len(grps) |-> g - 1],
       [g \in 1..Len(grps) |->
          [c \in Range(PIVOT_INDEX) \cup Range(acol) |->
             IF c \in Range(PIVOT_INDEX) THEN grps[g][IndexOf(PIVOT_INDEX, c)]
             ELSE PivotCell(df, used, grps[g], c)]])])])])

\* pivot_df.get(c, 0)
GetOr0(df, c) == IF c \in Columns(df) THEN Col(df, c) ELSE [i \in 1..NRows(df) |-> FZero]

extract_parameters(self, df) ==
  IF ~(Range(REQUIRED_COLUMNS) \subseteq Columns(df)) THEN Raise(self, df, "KeyError")
  ELSE
  Let([p0 \in {PivotTable(df)} |->
  Let([p1 \in {Assign(p0, "C", GetOr0(p0, "Child"))} |->
  Let([p2 \in {Assign(p1, "A", GetOr0(p1, "Adult"))} |->
  Let([p3 \in {Assign(p2, "T", [i \in 1..NRows(p2) |-> FAdd(p2.rows[i]["C"], p2.rows[i]["A"])])} |->

  Let([p4 \in {Assign(p3, "Child_Enrolment_Share",
              [i \in 1..NRows(p3) |->
                 FMul(FDiv(p3.rows[i]["C"], FAdd(p3.rows[i]["T"], EPS)), F(100))])} |->

  Let([p5 \in {Assign(p4, "Adult_Dominance_Ratio",
              [i \in 1..NRows(p4) |-> FDiv(p4.rows[i]["A"], FAdd(p4.rows[i]["C"], EPS))])} |->

  Let([p6 \in {SortValues(p5, <<"State", "District", "Year", "Month">>)} |->
  Let([p7 \in {Assign(p6, "Child_Growth_Rate",
              Transform(p6, <<"State", "District">>, "C", PctChange))} |->
  Let([p8 \in {Assign(p7, "Enrolment_Volatility",
              Transform(p7, <<"State", "District">>, "C", LAMBDA x : RollingStd(x, 3)))} |->

    Ret(self, df,
        [parameters |-> p8,
         base |-> Project(p8, <<"Year", "Month", "State", "District", "C", "A", "T">>),
         derived |-> Project(p8, <<"State", "District", "Child_Enrolment_Share",
                                   "Adult_Dominance_Ratio", "Child_Growth_Rate",
                                   "Enrolment_Volatility">>)])])])])])])])])])])

(***************************************************************************)
(* models.py: class InclusionScoringModels                                  *)
(***************************************************************************)
L_Critical == Str(<<"C", "r", "i", "t", "i", "c", "a", "l">>)

L_Moderate == Str(<<"M", "o", "d", "e", "r", "a", "t", "e">>)

L_Healthy == Str(<<"H", "e", "a", "l", "t", "h", "y">>)

L_Critical_Gap == Str(<<"C", "r", "i", "t", "i", "c", "a", "l", "_", "G", "a", "p">>)

L_High_Gap == Str(<<"H", "i", "g", "h", "_", "G", "a", "p">>)

L_Moderate_Gap == Str(<<"M", "o", "d", "e", "r", "a", "t", "e", "_", "G", "a", "p">>)

L_Low_Gap == Str(<<"L", "o", "w", "_", "G", "a", "p">>)

L_Highly_Stable == Str(<<"H", "i", "g", "h", "l", "y", "_", "S", "t", "a", "b", "l", "e">>)

L_Stable == Str(<<"S", "t", "a", "b", "l", "e">>)

L_Unstable == Str(<<"U", "n", "s", "t", "a", "b", "l", "e">>)

L_Highly_Unstable == Str(<<"H", "i", "g", "h", "l", "y", "_", "U", "n", "s", "t", "a", "b", "l", "e">>)

L_Critical_Risk == Str(<<"C", "r", "i", "t", "i", "c", "a", "l", "_", "R", "i", "s", "k">>)

L_High_Risk == Str(<<"H", "i", "g", "h", "_", "R", "i", "s", "k">>)

L_Medium_Risk == Str(<<"M", "e", "d", "i", "u", "m", "_", "R", "i", "s", "k">>)

L_Low_Risk == Str(<<"L", "o", "w", "_", "R", "i", "s", "k">>)

\* InclusionScoringModels(): the fields set by __init__
ScoringModelsInit ==
  [ceps_scores |-> None, igi_scores |-> None, liss_scores |-> None, fers_scores |-> None]

\* a variant of classify_inclusion that puts the limits 30 and 60 in the
\* lower class
classify_inclusion_inclusive(ceps_val) ==
  IF FLe(ceps_val, F(30)) THEN L_Critical
  ELSE IF FLe(ceps_val, F(60)) THEN L_Moderate
  ELSE L_Healthy

classify_inclusion(ceps_val) ==
  IF FLt(ceps_val, F(30)) THEN L_Critical
  ELSE IF FLt(ceps_val, F(60)) THEN L_Moderate
  ELSE L_Healthy

classify_gap_risk(igi_val) ==
  IF FGt(igi_val, Dec(7, 1)) THEN L_Critical_Gap
  ELSE IF FGt(igi_val, Dec(4, 1)) THEN L_High_Gap
  ELSE IF FGt(igi_val, Dec(1, 1)) THEN L_Moderate_Gap
  ELSE L_Low_Gap

\* a classification without the level Highly_Unstable
classify_stability_three(liss_val) ==
  IF FGt(liss_val, Dec(8, 1)) THEN L_Highly_Stable
  ELSE IF FGt(liss_val, Dec(6, 1)) THEN L_Stable
  ELSE L_Unstable

classify_stability(liss_val) ==
  IF FGt(liss_val, Dec(8, 1)) THEN L_Highly_Stable
  ELSE IF FGt(liss_val, Dec(6, 1)) THEN L_Stable
  ELSE IF FGt(liss_val, Dec(4, 1)) THEN L_Unstable
  ELSE L_Highly_Unstable

classify_exclusion_risk(fers_val) ==
  IF FGt(fers_val, Dec(8, 1)) THEN L_Critical_Risk
  ELSE IF FGt(fers_val, Dec(6, 1)) THEN L_High_Risk
  ELSE IF FGt(fers_val, Dec(4, 1)) THEN L_Medium_Risk
  ELSE L_Low_Risk

\* (C / (C + A + 1e-8)) * 100 of one row
\* the share of children as a fraction, not as a percentage
CepsOfFraction(r) == FDiv(r["C"], FAdd(FAdd(r["C"], r["A"]), EPS))

CepsOf(r) == FMul(FDiv(r["C"], FAdd(FAdd(r["C"], r["A"]), EPS)), F(100))

\* a variant of calculate_ceps that answers from self.ceps_scores once it
\* is set
calculate_ceps_cached(self, df) ==
  IF "C" \notin Columns(df) \/ "A" \notin Columns(df) THEN Raise(self, df, "ValueError")
  ELSE IF ~self.ceps_scores.none THEN Ret(self, df, self.ceps_scores)
  ELSE
  Let([d1 \in {Assign(df, "CEPS", Map(df.rows, CepsOf))} |->
  Let([d2 \in {Assign(d1, "Inclusion_Level", Map(Col(d1, "CEPS"), classify_inclusion))} |->
    Ret([self EXCEPT !.ceps_scores = d2], df, d2)])])

calculate_ceps(self, df) ==
  IF "C" \notin Columns(df) \/ "A" \notin Columns(df) THEN Raise(self, df, "ValueError")
  ELSE
  Let([d1 \in {Assign(df, "CEPS", Map(df.rows, CepsOf))} |->
  Let([d2 \in {Assign(d1, "Inclusion_Level", Map(Col(d1, "CEPS"), classify_inclusion))} |->
    Ret([self EXCEPT !.ceps_scores = d2], df, d2)])])

\* a variant of IgiOf without the clip
IgiOfUnclipped(r) == FSub(FOne, FDiv(r["C"], FAdd(r["A"], EPS)))

\* (1 - C / (A + 1e-8)).clip(-10, 1) of one row
IgiOf(r) == FClip(FSub(FOne, FDiv(r["C"], FAdd(r["A"], EPS))), F(-10), FOne)

calculate_igi(self, df) ==
  IF "C" \notin Columns(df) \/ "A" \notin Columns(df) THEN Raise(self, df, "KeyError")
  ELSE
  Let([d1 \in {Assign(df, "IGI", Map(df.rows, IgiOf))} |->
  Let([d2 \in {Assign(d1, "Gap_Risk_Level", Map(Col(d1, "IGI"), classify_gap_risk))} |->
    Ret(self, df, d2)])])

\* a variant of FillNa0 that leaves the missing value
FillNaNot(x) == x

\* Series.fillna(0) on one cell
FillNa0(x) == IF IsNaN(x) THEN FZero ELSE x

\* transform('var') of one group
GroupVar(x) == Let([v \in {SVar(x)} |-> [p \in 1..Len(x) |-> v]])

\* the body of calculate_liss once CEPS is there
LissOf(df) ==
  Let([variance_series \in {Map(Transform(df, <<"State", "District">>, "CEPS", GroupVar), FillNa0)} |->

  Let([max_variance \in {FAdd(SMax(variance_series), EPS)} |->
  Let([d1 \in {Assign(df, "LISS",
              [i \in 1..NRows(df) |->
                 FClip(FSub(FOne, FDiv(variance_series[i], max_variance)), FZero, FOne)])} |->

    Assign(d1, "Stability_Level", Map(Col(d1, "LISS"), classify_stability))])])])

calculate_liss(self, df) ==
  Let([c \in {IF "CEPS" \notin Columns(df) THEN calculate_ceps(self, df) ELSE Ret(self, df, df)} |->

    CASE c.exc # "none" -> Raise(c.self, df, c.exc)
      [] ~({"State", "District"} \subseteq Columns(c.ret)) -> Raise(c.self, df, "KeyError")
      [] OTHER -> Ret(c.self, df, LissOf(c.ret))])

\* FERS of one row
FersRow(r, w1, w2, w3, igi_min, igi_max, vol_max) ==
  LET ceps_normalized == FDiv(r["CEPS"], F(100))
      igi_normalized == FDiv(FSub(r["IGI"], igi_min), FAdd(FSub(igi_max, igi_min), EPS))
      volatility_normalized == FDiv(r["Enrolment_Volatility"], vol_max)
  IN  FClip(FAdd(FAdd(FMul(w1, FSub(FOne, ceps_normalized)), FMul(w2, igi_normalized)),
                 FMul(w3, volatility_normalized)),
            FZero, FOne)

\* a variant of FersOf that leaves the normalized volatility in the column
\* Enrolment_Volatility
FersOfInPlace(df, w1, w2, w3) ==
  Let([igi_min \in {SMin(Col(df, "IGI"))} |->
  Let([igi_max \in {SMax(Col(df, "IGI"))} |->
  Let([vol_max \in {FAdd(SMax(Col(df, "Enrolment_Volatility")), EPS)} |->
  Let([d1 \in {Assign(df, "FERS",
                 Map(df.rows, LAMBDA r : FersRow(r, w1, w2, w3, igi_min, igi_max, vol_max)))} |->
  Let([d2 \in {Assign(d1, "Enrolment_Volatility",
                 Map(Col(d1, "Enrolment_Volatility"), LAMBDA x : FDiv(x, vol_max)))} |->
    Assign(d2, "Exclusion_Risk_Level", Map(Col(d2, "FERS"), classify_exclusion_risk))])])])])])

\* the body of calculate_fers once CEPS, IGI and Enrolment_Volatility are
\* there
FersOf(df, w1, w2, w3) ==
  Let([igi_min \in {SMin(Col(df, "IGI"))} |->
  Let([igi_max \in {SMax(Col(df, "IGI"))} |->
  Let([vol_max \in {FAdd(SMax(Col(df, "Enrolment_Volatility")), EPS)} |->
  Let([d1 \in {Assign(df, "FERS",
              Map(df.rows, LAMBDA r : FersRow(r, w1, w2, w3, igi_min, igi_max, vol_max)))} |->

    Assign(d1, "Exclusion_Risk_Level", Map(Col(d1, "FERS"), classify_exclusion_risk))])])])])

\* a variant of calculate_fers that takes 0 for a score that is not there
calculate_fers_unscored(self, df, w1, w2, w3) ==
  Let([c \in {IF "CEPS" \notin Columns(df)
                THEN Assign(df, "CEPS", [i \in 1..NRows(df) |-> FZero]) ELSE df} |->
  Let([g \in {IF "IGI" \notin Columns(c)
                THEN Assign(c, "IGI", [i \in 1..NRows(c) |-> FZero]) ELSE c} |->
  Let([d \in {IF "Enrolment_Volatility" \notin Columns(g)
                THEN Assign(g, "Enrolment_Volatility", [i \in 1..NRows(g) |-> FZero])
                ELSE g} |->
  Let([out \in {FersOf(d, w1, w2, w3)} |->
    Ret([self EXCEPT !.fers_scores = out], df, out)])])])])

calculate_fers(self, df, w1, w2, w3) ==
  Let([total \in {FAdd(FAdd(w1, w2), w3)} |->
  Let([renorm \in {FGt(FAbs(FSub(total, FOne)), Dec(1, 2))} |->
    IF renorm /\ total = FZero THEN Raise(self, df, "ZeroDivisionError")
    ELSE
    Let([v1 \in {IF renorm THEN FDiv(w1, total) ELSE w1} |->
    Let([v2 \in {IF renorm THEN FDiv(w2, total) ELSE w2} |->
    Let([v3 \in {IF renorm THEN FDiv(w3, total) ELSE w3} |->
    Let([c \in {IF "CEPS" \notin Columns(df) THEN calculate_ceps(self, df) ELSE Ret(self, df, df)} |->

    Let([g \in {IF c.exc # "none" THEN c
         ELSE IF "IGI" \notin Columns(c.ret) THEN calculate_igi(c.self, c.ret)
         ELSE Ret(c.self, df, c.ret)} |->
      IF g.exc # "none" THEN Raise(g.self, df, g.exc)
      ELSE
      Let([d \in {IF "Enrolment_Volatility" \notin Columns(g.ret)
           THEN Assign(g.ret, "Enrolment_Volatility", [i \in 1..NRows(g.ret) |-> FZero])
           ELSE g.ret} |->
      Let([out \in {FersOf(d, v1, v2, v3)} |->
        Ret([g.self EXCEPT !.fers_scores = out], df, out)])])])])])])])])])

\* the default weights of calculate_fers
W1 == Dec(4, 1)

W2 == Dec(35, 2)

W3 == Dec(25, 2)

compute_all_scores(self, df) ==
  Let([c \in {calculate_ceps(self, df)} |->
  Let([g \in {IF c.exc # "none" THEN c ELSE calculate_igi(c.self, c.ret)} |->
  Let([l \in {IF g.exc # "none" THEN g ELSE calculate_liss(g.self, g.ret)} |->
  Let([f \in {IF l.exc # "none" THEN l ELSE calculate_fers(l.self, l.ret, W1, W2, W3)} |->
    IF f.exc # "none" THEN Raise(f.self, df, f.exc) ELSE Ret(f.self, df, f.ret)])])])])

\* groupby(keys): the keys of the rows that have one, in ascending order
GroupKeys(df, keys) ==
  Tup(SortSet({KeyOf(df, keys, i) : i \in {j \in 1..NRows(df) : HasKey(df, keys, j)}}, KeyCmp))

\* the cells of column c in the rows of the group with the key k
GroupCol(df, keys, k, c) ==
  Col(Take(df, Positions(NRows(df), LAMBDA i : KeyOf(df, keys, i) = k)), c)

\* the order of the table, whatever the values
PrecedesInOrder(v, i, j) == i < j

\* i comes before j in sort_values(ascending=False) of the values v: the
\* greater value first, the missing values last, equal values in their
\* order in the table
Precedes(v, i, j) ==
  \/ ~IsNaN(v[i]) /\ IsNaN(v[j])
  \/ FGt(v[i], v[j])
  \/ i < j /\ (IsNaN(v[i]) <=> IsNaN(v[j])) /\ ~FLt(v[i], v[j])

\* a sort that leaves out the rows without a value in column c
SortDescendingDropNa(df, c) ==
  Let([kept \in {Take(df, Positions(NRows(df), LAMBDA i : ~IsNaN(df.rows[i][c])))} |->
  Let([v \in {Col(kept, c)} |->
  Let([rank \in {Tup([i \in 1..NRows(kept) |->
                   Cardinality({j \in 1..NRows(kept) : j # i /\ Precedes(v, j, i)}) + 1])} |->
    Take(kept, Tup([r \in 1..NRows(kept) |-> CHOOSE i \in 1..NRows(kept) : rank[i] = r]))])])])

\* df.sort_values(c, ascending=False)
SortDescending(df, c) ==
  Let([v \in {Col(df, c)} |->
  Let([rank \in {Tup([i \in 1..NRows(df) |->
                   Cardinality({j \in 1..NRows(df) : j # i /\ Precedes(v, j, i)}) + 1])} |->
    Take(df, Tup([r \in 1..NRows(df) |-> CHOOSE i \in 1..NRows(df) : rank[i] = r]))])])

\* df.head(n), n >= 0
HeadRows(df, n) == Take(df, Tup([i \in 1..MinI(n, NRows(df)) |-> i]))

REGION == <<"State", "District">>

REGIONAL_COLUMNS ==
  <<"State", "District", "Avg_CEPS", "Avg_IGI", "Avg_LISS", "Avg_FERS", "Total_Child",
    "Total_Adult", "Total_Enrolments">>

\* the row of get_regional_summary for the region k
RegionalRow(df, k) ==
  [State |-> k[1], District |-> k[2],
   Avg_CEPS |-> SMean(GroupCol(df, REGION, k, "CEPS")),
   Avg_IGI |-> SMean(GroupCol(df, REGION, k, "IGI")),
   Avg_LISS |-> SMean(GroupCol(df, REGION, k, "LISS")),
   Avg_FERS |-> SMean(GroupCol(df, REGION, k, "FERS")),
   Total_Child |-> SSum(GroupCol(df, REGION, k, "C")),
   Total_Adult |-> SSum(GroupCol(df, REGION, k, "A")),
   Total_Enrolments |-> SSum(GroupCol(df, REGION, k, "T"))]

get_regional_summary(self, df) ==
  IF ~({"State", "District", "CEPS", "IGI", "LISS", "FERS", "C", "A", "T"} \subseteq Columns(df))
    THEN Raise(self, df, "KeyError")
  ELSE
  Let([ks \in {GroupKeys(df, REGION)} |->
  Let([summary \in {DF(REGIONAL_COLUMNS, {}, [g \in 1..Len(ks) |-> g - 1],
                      [g \in 1..Len(ks) |-> RegionalRow(df, ks[g])])} |->
    Ret(self, df, SortDescending(summary, "Avg_FERS"))])])

STATE_COLUMNS ==
  <<"State", "Avg_CEPS", "Avg_IGI", "Avg_LISS", "Avg_FERS", "Total_Child", "Total_Adult",
    "Child_Share">>

\* the row of get_state_summary for the state k, Child_Share not yet set
StateRow(df, k) ==
  [State |-> k[1],
   Avg_CEPS |-> SMean(GroupCol(df, <<"State">>, k, "CEPS")),
   Avg_IGI |-> SMean(GroupCol(df, <<"State">>, k, "IGI")),
   Avg_LISS |-> SMean(GroupCol(df, <<"State">>, k, "LISS")),
   Avg_FERS |-> SMean(GroupCol(df, <<"State">>, k, "FERS")),
   Total_Child |-> SSum(GroupCol(df, <<"State">>, k, "C")),
   Total_Adult |-> SSum(GroupCol(df, <<"State">>, k, "A")),
   Child_Share |-> NaN]

get_state_summary(self, df) ==
  IF ~({"State", "CEPS", "IGI", "LISS", "FERS", "C", "A"} \subseteq Columns(df))
    THEN Raise(self, df, "KeyError")
  ELSE
  Let([ks \in {GroupKeys(df, <<"State">>)} |->
  Let([summary \in {DF(STATE_COLUMNS, {}, [g \in 1..Len(ks) |-> g - 1],
                      [g \in 1..Len(ks) |-> StateRow(df, ks[g])])} |->
  Let([shared \in {Assign(summary, "Child_Share",
                     Map(summary.rows,
                         LAMBDA r : FMul(FDiv(r["Total_Child"],
                                              FAdd(r["Total_Child"], r["Total_Adult"])),
                                         F(100))))} |->
    Ret(self, df, SortDescending(shared, "Avg_FERS"))])])])

get_top_risk_regions(self, df, top_n) ==
  Let([regional_summary \in {get_regional_summary(self, df)} |->
    IF regional_summary.exc # "none" THEN regional_summary
    ELSE Ret(regional_summary.self, df, HeadRows(regional_summary.ret, top_n))])

(***************************************************************************)
(* anomaly_detection.py: class AnomalyDetector                              *)
(***************************************************************************)
\* a cell of a boolean column
Bool(b) == [k |-> "bool", s |-> IF b THEN 1 ELSE 0, m |-> <<>>]

IsTrue(x) == x.k = "bool" /\ x.s = 1

\* a boolean as the number rolling() sums
AsNum(x) == IF x.k = "bool" THEN F(x.s) ELSE x

\* a sum from the first period on, whatever the window
RollingSumFromFirst(xs, window) ==
  Tup([i \in 1..Len(xs) |->
         IF Len(DropNaN(SubSeq(xs, 1, i))) < 1 THEN NaN
         ELSE SSum(Map(SubSeq(xs, 1, i), AsNum))])

\* x.rolling(window, min_periods=1).sum()
RollingSum(xs, window) ==
  Tup([i \in 1..Len(xs) |->
         IF Len(DropNaN(Window(xs, window, i))) < 1 THEN NaN
         ELSE SSum(Map(Window(xs, window, i), AsNum))])

\* df[df[flag]]
Flagged(df, flag) == Where(df, LAMBDA r : IsTrue(r[flag]))

\* AnomalyDetector(): the fields set by __init__
AnomalyDetectorInit ==
  [volatility_threshold |-> Dec(3, 1), growth_threshold |-> Dec(-1, 1),
   min_child_ratio |-> Dec(2, 1), anomalies |-> None]

REGION_PERIOD == <<"State", "District", "Year", "Month">>

detect_high_adult_enrolment_anomaly(self, df) ==
  IF ~({"C", "A"} \subseteq Columns(df)) THEN Raise(self, df, "KeyError")
  ELSE
  Let([d1 \in {Assign(df, "Child_Ratio",
              [i \in 1..NRows(df) |->
                 FDiv(df.rows[i]["C"], FAdd(FAdd(df.rows[i]["C"], df.rows[i]["A"]), EPS))])} |->

  Let([d2 \in {Assign(d1, "Anomaly_LowChildRatio",
              Map(Col(d1, "Child_Ratio"), LAMBDA x : Bool(FLt(x, self.min_child_ratio))))} |->

    Ret(self, df, Flagged(d2, "Anomaly_LowChildRatio"))])])

detect_declining_growth_anomaly(self, df, consecutive_periods) ==
  IF ~(Range(REGION_PERIOD) \subseteq Columns(df)) THEN Raise(self, df, "KeyError")
  ELSE IF "Child_Growth_Rate" \notin Columns(df) /\ "C" \notin Columns(df)
  THEN Raise(self, df, "KeyError")
  ELSE
  Let([d0 \in {SortValues(df, REGION_PERIOD)} |->
  Let([d1 \in {IF "Child_Growth_Rate" \notin Columns(d0)
       THEN Assign(d0, "Child_Growth_Rate",
                   Transform(d0, <<"State", "District">>, "C", PctChange))
       ELSE d0} |->
  Let([d2 \in {Assign(d1, "Negative_Growth",
              Map(Col(d1, "Child_Growth_Rate"),
                  LAMBDA x : Bool(FLt(x, self.growth_threshold))))} |->
  Let([d3 \in {Assign(d2, "Consecutive_Negative",
              Transform(d2, <<"State", "District">>, "Negative_Growth",
                        LAMBDA x : RollingSum(x, consecutive_periods)))} |->
  Let([d4 \in {Assign(d3, "Anomaly_DecliningGrowth",
              Map(Col(d3, "Consecutive_Negative"),
                  LAMBDA x : Bool(FGe(x, F(consecutive_periods)))))} |->
    Ret(self, df, Flagged(d4, "Anomaly_DecliningGrowth"))])])])])])

detect_volatility_anomaly(self, df) ==
  IF "Enrolment_Volatility" \notin Columns(df)
     /\ ~({"State", "District", "C"} \subseteq Columns(df))
  THEN Raise(self, df, "KeyError")
  ELSE
  Let([d1 \in {IF "Enrolment_Volatility" \notin Columns(df)
       THEN Assign(df, "Enrolment_Volatility",
                   Transform(df, <<"State", "District">>, "C", LAMBDA x : RollingStd(x, 3)))
       ELSE df} |->
  Let([vol_max \in {FAdd(SMax(Col(d1, "Enrolment_Volatility")), EPS)} |->
  Let([d2 \in {Assign(d1, "Volatility_Normalized",
              Map(Col(d1, "Enrolment_Volatility"), LAMBDA x : FDiv(x, vol_max)))} |->
  Let([d3 \in {Assign(d2, "Anomaly_HighVolatility",
              Map(Col(d2, "Volatility_Normalized"),
                  LAMBDA x : Bool(FGt(x, self.volatility_threshold))))} |->
    Ret(self, df, Flagged(d3, "Anomaly_HighVolatility"))])])])])

detect_stagnation_anomaly(self, df, stagnation_months) ==
  IF ~(Range(REGION_PERIOD) \cup {"C"} \subseteq Columns(df)) THEN Raise(self, df, "KeyError")
  ELSE
  Let([d0 \in {SortValues(df, REGION_PERIOD)} |->
  \* df['C'].shift(1) runs down the whole sorted table
  Let([d1 \in {Assign(d0, "Near_Zero_Growth",
              [i \in 1..NRows(d0) |->
                 Bool(FLt(FAbs(FSub(d0.rows[i]["C"],
                                    IF i = 1 THEN NaN ELSE d0.rows[i - 1]["C"])),
                          F(10)))])} |->
  Let([d2 \in {Assign(d1, "Stagnation_Period",
              Transform(d1, <<"State", "District">>, "Near_Zero_Growth",
                        LAMBDA x : RollingSum(x, stagnation_months)))} |->
  Let([d3 \in {Assign(d2, "Anomaly_Stagnation",
              Map(Col(d2, "Stagnation_Period"),
                  LAMBDA x : Bool(FGe(x, F(stagnation_months)))))} |->
    Ret(self, df, Flagged(d3, "Anomaly_Stagnation"))])])])])

\* transform('mean') of one group
GroupMean(x) == Let([mu \in {SMean(x)} |-> [p \in 1..Len(x) |-> mu]])

detect_seasonal_anomaly(self, df) ==
  IF ~({"State", "District", "Month", "C"} \subseteq Columns(df))
  THEN Raise(self, df, "KeyError")
  ELSE
  Let([d1 \in {Assign(df, "Seasonal_Baseline",
              Transform(df, <<"State", "District", "Month">>, "C", GroupMean))} |->
  Let([d2 \in {Assign(d1, "Seasonal_Deviation",
              [i \in 1..NRows(d1) |->
                 FAbs(FSub(d1.rows[i]["C"], d1.rows[i]["Seasonal_Baseline"]))])} |->
  Let([dev_max \in {FAdd(SMax(Col(d2, "Seasonal_Deviation")), EPS)} |->
  Let([d3 \in {Assign(d2, "Seasonal_Deviation_Normalized",
              Map(Col(d2, "Seasonal_Deviation"), LAMBDA x : FDiv(x, dev_max)))} |->
  Let([d4 \in {Assign(d3, "Anomaly_SeasonalDeviation",
              Map(Col(d3, "Seasonal_Deviation_Normalized"),
                  LAMBDA x : Bool(FGt(x, Dec(5, 1)))))} |->
    Ret(self, df, Flagged(d4, "Anomaly_SeasonalDeviation"))])])])])])

\* the dictionary of the five results, in the order of the calls; the first
\* exception ends the call and self.anomalies keeps its value
detect_all_anomalies(self, df) ==
  Let([a1 \in {detect_high_adult_enrolment_anomaly(self, df)} |->
    IF a1.exc # "none" THEN Raise(self, df, a1.exc) ELSE
  Let([a2 \in {detect_declining_growth_anomaly(self, df, 3)} |->
    IF a2.exc # "none" THEN Raise(self, df, a2.exc) ELSE
  Let([a3 \in {detect_volatility_anomaly(self, df)} |->
    IF a3.exc # "none" THEN Raise(self, df, a3.exc) ELSE
  Let([a4 \in {detect_stagnation_anomaly(self, df, 6)} |->
    IF a4.exc # "none" THEN Raise(self, df, a4.exc) ELSE
  Let([a5 \in {detect_seasonal_anomaly(self, df)} |->
    IF a5.exc # "none" THEN Raise(self, df, a5.exc) ELSE
  Let([anomalies \in {[low_child_ratio |-> a1.ret, declining_growth |-> a2.ret,
        high_volatility |-> a3.ret, stagnation |-> a4.ret,
        seasonal_deviation |-> a5.ret]} |->
    Ret([self EXCEPT !.anomalies = anomalies], df, anomalies)])])])])])])

\* the natural number below BASE * BASE held by the limbs n
NatOf(n) == Limb(n, 1) + BASE * Limb(n, 2)

S_nan == <<"n", "a", "n">>

\* format(x, ".df") of a value below 10^8 in magnitude: d decimals, the
\* nearest, a tie to the even digit
FormatF(x, d) ==
  CASE x.k = "nan" -> S_nan
    [] x.k = "inf" -> (IF x.s < 0 THEN <<"-">> ELSE <<>>) \o <<"i", "n", "f">>
    [] OTHER ->
       Let([q \in {BDiv(x.m, Pow10(4 * FRAC - d))} |->
       Let([c \in {BCmp(BMulSmall(BSub(x.m, BMul(q, Pow10(4 * FRAC - d))), 2),
                 Pow10(4 * FRAC - d))} |->
       Let([ds \in {ZFill(IntStr(NatOf(q)
                         + (IF c > 0 \/ (c = 0 /\ Limb(q, 1) % 2 = 1) THEN 1 ELSE 0)),
                  d + 1)} |->
         (IF x.s < 0 THEN <<"-">> ELSE <<>>)
           \o SubSeq(ds, 1, Len(ds) - d) \o <<".">> \o SubSeq(ds, Len(ds) - d + 1, Len(ds))])])])

\* str() of a cell of State or District
PyStr(x) == IF x.k = "str" THEN x.m ELSE S_nan

\* f"{row['State']}, {row['District']}"
RegionOf(r) == PyStr(r["State"]) \o <<",", " ">> \o PyStr(r["District"])

\* a variant of AlertsOf that stops after the first row of the selection
AlertsOfFirst(sel, type, key, c, before, d, after, action) ==
  Tup([i \in 1..MinI(1, NRows(sel)) |->
         [type |-> type, region |-> RegionOf(sel.rows[i]), key |-> key,
          value |-> sel.rows[i][c],
          message |-> <<before, FormatF(sel.rows[i][c], d), after>>,
          action |-> action]])

\* the alerts of one kind: one for each row of the selection sel, in table
\* order.  The message is the text before the number, the number as
\* formatted, and the text after it.
AlertsOf(sel, type, key, c, before, d, after, action) ==
  Tup([i \in 1..NRows(sel) |->
         [type |-> type, region |-> RegionOf(sel.rows[i]), key |-> key,
          value |-> sel.rows[i][c],
          message |-> <<before, FormatF(sel.rows[i][c], d), after>>,
          action |-> action]])

\* row['State'] or row['District'] of a selected row raises KeyError when the
\* column is not there.  The argument after the call is the pair of df and
\* scores_df.
create_policy_alerts(self, df, scores_df) ==
  IF scores_df.none THEN Ret(self, <<df, scores_df>>, <<>>)
  ELSE IF "CEPS" \notin Columns(scores_df) THEN Raise(self, <<df, scores_df>>, "KeyError")
  ELSE
  Let([critical_regions \in {Where(scores_df, LAMBDA r : FLt(r["CEPS"], F(20)))} |->
    IF NRows(critical_regions) > 0 /\ ~({"State", "District"} \subseteq Columns(scores_df))
    THEN Raise(self, <<df, scores_df>>, "KeyError")
    ELSE IF "FERS" \notin Columns(scores_df) THEN Raise(self, <<df, scores_df>>, "KeyError")
    ELSE
  Let([high_risk_regions \in {Where(scores_df, LAMBDA r : FGt(r["FERS"], Dec(75, 2)))} |->
    IF NRows(high_risk_regions) > 0 /\ ~({"State", "District"} \subseteq Columns(scores_df))
    THEN Raise(self, <<df, scores_df>>, "KeyError")
    ELSE IF "LISS" \notin Columns(scores_df) THEN Raise(self, <<df, scores_df>>, "KeyError")
    ELSE
  Let([unstable_regions \in {Where(scores_df, LAMBDA r : FLt(r["LISS"], Dec(4, 1)))} |->
    IF NRows(unstable_regions) > 0 /\ ~({"State", "District"} \subseteq Columns(scores_df))
    THEN Raise(self, <<df, scores_df>>, "KeyError")
    ELSE
    Ret(self, <<df, scores_df>>,
        AlertsOf(critical_regions, "CRITICAL_INCLUSION_GAP", "ceps", "CEPS",
                 "Critical child Aadhaar gap (", 1, "% penetration)",
                 "Deploy intensive child enrolment drive")
        \o AlertsOf(high_risk_regions, "HIGH_EXCLUSION_RISK", "fers", "FERS",
                    "High future exclusion risk (FERS: ", 2, ")",
                    "Initiate policy review and capacity assessment")
        \o AlertsOf(unstable_regions, "UNSTABLE_ENROLMENT", "liss", "LISS",
                    "Unstable enrolment pattern (LISS: ", 2, ")",
                    "Investigate root cause and stabilize processes"))])])])

PRIORITY_COLUMNS == <<"State", "District", "CEPS", "FERS", "LISS", "Intervention_Priority">>

\* (1 - CEPS / 100) * 0.3 + FERS * 0.4 + (1 - LISS) * 0.3 of one row
InterventionScore(r) ==
  FAdd(FAdd(FMul(FSub(FOne, FDiv(r["CEPS"], F(100))), Dec(3, 1)),
            FMul(r["FERS"], Dec(4, 1))),
       FMul(FSub(FOne, r["LISS"]), Dec(3, 1)))

\* the call works on scores_df itself: the table of the caller gets the
\* column Intervention_Priority.  The argument after the call is the pair
\* of df and scores_df.
get_priority_intervention_regions(self, df, scores_df, top_n) ==
  IF ~({"CEPS", "FERS", "LISS"} \subseteq Columns(scores_df))
    THEN Raise(self, <<df, scores_df>>, "KeyError")
  ELSE
  Let([scored \in {Assign(scores_df, "Intervention_Priority",
                     Map(scores_df.rows, InterventionScore))} |->
    IF ~({"State", "District"} \subseteq Columns(scored))
      THEN Raise(self, <<df, scored>>, "KeyError")
    ELSE Ret(self, <<df, scored>>,
             Project(HeadRows(SortDescending(scored, "Intervention_Priority"), top_n),
                     PRIORITY_COLUMNS))])

(***************************************************************************)
(* The tables read_csv can give.  A raw table has up to MaxRows rows: the   *)
(* first from FirstRows, which varies one field of a valid row at a time    *)
(* (a missing value, a value on or over a limit, another spelling), the     *)
(* others from MoreRows, rows that share its region and period or not.      *)
(* A count is a number or a text; the texts are digits with an optional     *)
(* sign and fraction, or no number at all.                                  *)
(***************************************************************************)
MaxRows == 2

MaxRuns == 2

S_bihar == <<" ", "b", "i", "h", "a", "r">>

S_PATNA == <<"P", "A", "T", "N", "A", " ">>

S_goa == <<"g", "o", "a">>

S_Panaji == <<"P", "a", "n", "a", "j", "i">>

S_andaman == <<"a", "n", "d", "a", "m", "a", "n", " ", "a", "n", "d", " ", "n", "i", "c", "o", "b", "a", "r">>

S_children == <<"c", "h", "i", "l", "d", "r", "e", "n">>

S_adults == <<" ", "A", "D", "U", "L", "T", "S", " ">>

S_12 == <<"1", "2">>

S_abc == <<"a", "b", "c">>

S_minus5 == <<"-", "5">>

S_6_99999999 == <<"6", ".", "9", "9", "9", "9", "9", "9", "9", "9">>

Row(y, m, s, d, a, c) ==
  [col \in Range(REQUIRED_COLUMNS) |->
     CASE col = "Year" -> y
       [] col = "Month" -> m
       [] col = "State" -> s
       [] col = "District" -> d
       [] col = "Age_Group" -> a
       [] OTHER -> c]

\* a valid row of Bihar, Patna, January 2024 but for the one field given
WithYear(y) == Row(y, F(1), Str(S_bihar), Str(S_PATNA), Str(S_children), F(3))

WithMonth(m) == Row(F(2024), m, Str(S_bihar), Str(S_PATNA), Str(S_children), F(3))

WithAge(a) == Row(F(2024), F(1), Str(S_bihar), Str(S_PATNA), a, F(3))

WithCount(c) == Row(F(2024), F(1), Str(S_bihar), Str(S_PATNA), Str(S_children), c)

FirstRows ==
  {WithCount(F(3)), WithCount(Dec(105, 1)), WithCount(F(0)), WithCount(Str(S_12)),
   WithCount(F(10^9)), WithCount(Str(S_abc)), WithCount(NaN), WithCount(F(-1)),
   WithCount(Str(S_minus5)),
   WithAge(Str(S_adults)), WithAge(Str(S_Senior)), WithAge(NaN),
   WithYear(NaN), WithYear(F(2009)), WithYear(F(2010)), WithYear(F(2026)), WithYear(F(2027)),
   WithMonth(NaN), WithMonth(F(0)), WithMonth(F(12)), WithMonth(F(13)),
   Row(F(2024), F(1), NaN, Str(S_PATNA), Str(S_children), F(3)),
   Row(F(2024), F(1), Str(S_bihar), NaN, Str(S_children), F(3)),
   Row(F(2024), F(1), Str(S_andaman), Str(S_PATNA), Str(S_children), F(3))}

MoreRows ==
  {Row(F(2024), F(1), Str(S_bihar), Str(S_PATNA), Str(S_adults), Str(S_6_99999999)),
   Row(F(2024), F(2), Str(S_bihar), Str(S_PATNA), Str(S_Child), F(0)),
   Row(F(2024), F(1), Str(S_goa), Str(S_Panaji), Str(S_Child), F(1000)),
   Row(F(2024), F(1), Str(S_bihar), Str(S_PATNA), Str(S_Senior), F(5)),
   Row(F(2024), F(1), Str(S_bihar), Str(S_PATNA), NaN, F(4))}

\* read_csv: the index is 0, 1, ...; a column of whole numbers with a
\* missing value is float64, and so is a column of a table with rows that
\* holds no text
RawTable(rows) ==
  DF(REQUIRED_COLUMNS,
     {c \in {"Year", "Month"} : \E i \in 1..Len(rows) : IsNaN(rows[i][c])}
       \cup {c \in {"State", "District", "Age_Group"} :
               Len(rows) > 0 /\ \A i \in 1..Len(rows) : ~IsStr(rows[i][c])},
     [i \in 1..Len(rows) |-> i - 1], rows)

\* the table without the column c
Without(df, c) == Project(df, SelectSeq(df.cols, LAMBDA d : d # c))

\* the table with one more column, Source
WithSource(df) == Assign(df, "Source", [i \in 1..NRows(df) |-> Str(S_abc)])

\* tables of several periods.  One region with 10 children and 100 adults
\* in January and no child in February
TwoPeriods ==
  <<Row(F(2024), F(1), Str(S_goa), Str(S_Panaji), Str(S_children), F(10)),
    Row(F(2024), F(1), Str(S_goa), Str(S_Panaji), Str(S_adults), F(100)),
    Row(F(2024), F(2), Str(S_goa), Str(S_Panaji), Str(S_adults), F(100))>>

\* one region with children only, in four periods
FourPeriods ==
  <<Row(F(2024), F(1), Str(S_bihar), Str(S_PATNA), Str(S_children), F(3)),
    Row(F(2024), F(2), Str(S_bihar), Str(S_PATNA), Str(S_children), F(0)),
    Row(F(2024), F(3), Str(S_bihar), Str(S_PATNA), Str(S_children), F(12)),
    Row(F(2024), F(4), Str(S_bihar), Str(S_PATNA), Str(S_children), F(1000))>>

\* one region whose children go from 12 to 3 and to none
ThreePeriods ==
  <<Row(F(2024), F(1), Str(S_bihar), Str(S_PATNA), Str(S_children), F(12)),
    Row(F(2024), F(2), Str(S_bihar), Str(S_PATNA), Str(S_children), F(3)),
    Row(F(2024), F(3), Str(S_bihar), Str(S_PATNA), Str(S_children), F(0))>>

\* one region with a million adults in two periods and one child in the
\* second
SmallChange ==
  <<Row(F(2024), F(1), Str(S_goa), Str(S_Panaji), Str(S_adults), F(10^6)),
    Row(F(2024), F(2), Str(S_goa), Str(S_Panaji), Str(S_adults), F(10^6)),
    Row(F(2024), F(2), Str(S_goa), Str(S_Panaji), Str(S_children), F(1))>>

SeriesTables ==
  {RawTable(TwoPeriods),
   RawTable(SmallChange),
   RawTable(ThreePeriods),
   RawTable(TwoPeriods \o <<WithCount(F(3))>>),
   RawTable(TwoPeriods \o SubSeq(FourPeriods, 1, 2)),
   RawTable(FourPeriods)}

\* the weights of calculate_fers: the default ones, weights that sum to 4,
\* weights with a negative one that sum to 1, weights that sum to 0
WEIGHTS ==
  {<<W1, W2, W3>>,
   <<F(2), F(1), F(1)>>,
   <<Dec(7, 1), Dec(6, 1), Dec(-3, 1)>>,
   <<F(1), F(-1), F(0)>>}

MaxTop == 2

\* the windows of the detectors go up to MaxWindow periods
MaxWindow == 2

FullTables ==
  {RawTable(<<>>)}
    \cup {RawTable(<<r>> \o more) :
            r \in FirstRows, more \in UNION {[1..n -> MoreRows] : n \in 0..(MaxRows - 1)}}

\* tables that lack a required column, and one with a column more
OddTables ==
  {Without(RawTable(<<WithCount(F(3))>>), c) : c \in Range(REQUIRED_COLUMNS)}
    \cup {WithSource(RawTable(<<WithCount(F(3))>>))}

RawTables == FullTables \cup OddTables \cup SeriesTables

\* the tables of a second and later run on the same objects
RerunTables ==
  {RawTable(<<WithCount(F(3))>>),
   RawTable(<<WithAge(Str(S_adults)), Row(F(2024), F(2), Str(S_bihar), Str(S_PATNA), Str(S_Child), F(0))>>),
   Without(RawTable(<<WithCount(F(3))>>), "Age_Group")}

(***************************************************************************)
(* The session of run_pipeline.main: one DataHandler, one                   *)
(* InclusionScoringModels and one AnomalyDetector, and the calls of main    *)
(* in order on a table that read_csv gave.  A call that raises ends the     *)
(* run.  The objects are kept for the next run, as the service and the      *)
(* dashboard keep theirs.                                                   *)
(***************************************************************************)
VARIABLES
  pc,               \* the step main is at
  run,              \* the number of the run
  raw,              \* the table read_csv gave
  handler,          \* the fields of the DataHandler
  models,           \* the fields of the InclusionScoringModels
  detector,         \* the fields of the AnomalyDetector
  is_valid,         \* what validate_schema returned
  clean_data,       \* what clean_data_pipeline returned
  normalized_data,  \* what normalize_data returned
  params,           \* what extract_parameters returned
  scored_data,      \* what compute_all_scores returned
  rescored,         \* what compute_all_scores returned for scored_data
  anomalies,        \* what detect_all_anomalies returned
  alerts,           \* what create_policy_alerts returned
  call,             \* the last call of a summary, a ranking or calculate_fers
  exc,              \* the exception that ended the run
  api,              \* the globals of api.py
  response,         \* the answer to the last request to the service
  session_state,    \* st.session_state of dashboard.py
  shown,            \* what the dashboard showed after the last upload
  request           \* the table of the last ingestion or upload

objects == <<handler, models, detector>>

locals == <<is_valid, clean_data, normalized_data, params, scored_data, rescored,
            anomalies, alerts, call>>

main_vars == <<pc, run, raw, objects, locals, exc>>

app_vars == <<api, response, session_state, shown, request>>

vars == <<main_vars, app_vars>>

NoParams == [parameters |-> None, base |-> None, derived |-> None]

NoCall == [op |-> "none", input |-> <<>>, ret |-> None]

MainInit ==
  /\ pc = "start"
  /\ run = 1
  /\ raw = None
  /\ handler = DataHandlerInit
  /\ models = ScoringModelsInit
  /\ detector = AnomalyDetectorInit
  /\ is_valid = FALSE
  /\ clean_data = None
  /\ normalized_data = None
  /\ params = NoParams
  /\ scored_data = None
  /\ rescored = None
  /\ anomalies = None
  /\ alerts = <<>>
  /\ call = NoCall
  /\ exc = "none"

\* the way a call ends in main: on to the step next, or out with the
\* exception
After(r, next) ==
  /\ pc' = IF r.exc = "none" THEN next ELSE "failed"
  /\ exc' = r.exc

\* handler.load_csv(data_path)
Load(t) ==
  /\ pc = "start"
  /\ \E r \in {load_csv(handler, t)} :
         /\ raw' = r.ret
         /\ handler' = r.self
         /\ After(r, "loaded")
  /\ UNCHANGED <<run, models, detector, locals, app_vars>>

\* is_valid = handler.validate_schema(handler.raw_data)
Validate ==
  /\ pc = "loaded"
  /\ \E r \in {validate_schema(handler, raw)} :
         /\ is_valid' = r.ret
         /\ raw' = r.arg
         /\ handler' = [r.self EXCEPT !.raw_data = r.arg]
         /\ After(r, "validated")
  /\ UNCHANGED <<run, models, detector, clean_data, normalized_data, params, scored_data,
                 rescored, anomalies, alerts, call, app_vars>>

\* clean_data = handler.clean_data_pipeline(handler.raw_data)
Clean ==
  /\ pc = "validated"
  /\ \E r \in {clean_data_pipeline(handler, raw)} :
         /\ clean_data' = r.ret
         /\ raw' = r.arg
         /\ handler' = r.self
         /\ After(r, "cleaned")
  /\ UNCHANGED <<run, models, detector, is_valid, normalized_data, params, scored_data,
                 rescored, anomalies, alerts, call, app_vars>>

\* handler.clean_data_pipeline(clean_data): the cleaning of a table that is
\* cleaned already, in place of the rest of main
Reclean ==
  /\ pc = "cleaned"
  /\ \E r \in {clean_data_pipeline(handler, clean_data)} :
         /\ call' = [op |-> "clean_data_pipeline", input |-> <<>>, ret |-> r.ret]
         /\ clean_data' = r.arg
         /\ handler' = r.self
         /\ After(r, "recleaned")
  /\ UNCHANGED <<run, raw, models, detector, is_valid, normalized_data, params,
                 scored_data, rescored, anomalies, alerts, app_vars>>

\* the orders of n rows
Orders(n) == {p \in [1..n -> 1..n] : \A i, j \in 1..n : p[i] = p[j] => i = j}

\* the table read from the file of df with its lines in the order p
Reordered(df, p) == DF(df.cols, df.float, df.index, [i \in 1..NRows(df) |-> df.rows[p[i]]])

\* clean_data_pipeline, normalize_data and extract_parameters as main calls
\* them, on the table of this run with its rows in the order p
Reorder(p) ==
  /\ pc = "extracted"
  /\ \E r1 \in {clean_data_pipeline(handler, Reordered(raw, p))} :
       \E r2 \in {normalize_data(r1.self, r1.ret)} :
         \E r3 \in {extract_parameters(r2.self, r2.ret)} :
           /\ call' = [op |-> "extract_parameters", input |-> p, ret |-> r3.ret.parameters]
           /\ handler' = r3.self
           /\ After(r3, "reordered")
  /\ UNCHANGED <<run, raw, models, detector, is_valid, clean_data, normalized_data, params,
                 scored_data, rescored, anomalies, alerts, app_vars>>

\* normalized_data = handler.normalize_data(clean_data)
Normalize ==
  /\ pc = "cleaned"
  /\ \E r \in {normalize_data(handler, clean_data)} :
         /\ normalized_data' = r.ret
         /\ clean_data' = r.arg
         /\ handler' = r.self
         /\ After(r, "normalized")
  /\ UNCHANGED <<run, raw, models, detector, is_valid, params, scored_data,
                 rescored, anomalies, alerts, call, app_vars>>

\* params = handler.extract_parameters(normalized_data)
Extract ==
  /\ pc = "normalized"
  /\ \E r \in {extract_parameters(handler, normalized_data)} :
         /\ params' = IF r.exc = "none" THEN r.ret ELSE NoParams
         /\ normalized_data' = r.arg
         /\ handler' = r.self
         /\ After(r, "extracted")
  /\ UNCHANGED <<run, raw, models, detector, is_valid, clean_data,
                 scored_data, rescored, anomalies, alerts, call, app_vars>>

\* scored_data = models.compute_all_scores(processed_data)
Score ==
  /\ pc = "extracted"
  /\ \E r \in {compute_all_scores(models, params.parameters)} :
         /\ scored_data' = r.ret
         /\ params' = [params EXCEPT !.parameters = r.arg]
         /\ models' = r.self
         /\ After(r, "scored")
  /\ UNCHANGED <<run, raw, handler, detector, is_valid, clean_data, normalized_data,
                 rescored, anomalies, alerts, call, app_vars>>

\* models.calculate_fers(processed_data, w1, w2, w3) with the weights w, in
\* place of compute_all_scores
Fers(w) ==
  /\ pc = "extracted"
  /\ \E r \in {calculate_fers(models, params.parameters, w[1], w[2], w[3])} :
         /\ call' = [op |-> "calculate_fers", input |-> w, ret |-> r.ret]
         /\ params' = [params EXCEPT !.parameters = r.arg]
         /\ models' = r.self
         /\ After(r, "weighted")
  /\ UNCHANGED <<run, raw, handler, detector, is_valid, clean_data, normalized_data,
                 scored_data, rescored, anomalies, alerts, app_vars>>

\* models.calculate_liss(processed_data), in place of compute_all_scores
Liss ==
  /\ pc = "extracted"
  /\ \E r \in {calculate_liss(models, params.parameters)} :
         /\ call' = [op |-> "calculate_liss", input |-> <<>>, ret |-> r.ret]
         /\ params' = [params EXCEPT !.parameters = r.arg]
         /\ models' = r.self
         /\ After(r, "stability")
  /\ UNCHANGED <<run, raw, handler, detector, is_valid, clean_data, normalized_data,
                 scored_data, rescored, anomalies, alerts, app_vars>>

\* detector.detect_stagnation_anomaly(processed_data, stagnation_months)
Stagnation(stagnation_months) ==
  /\ pc = "extracted"
  /\ \E r \in {detect_stagnation_anomaly(detector, params.parameters, stagnation_months)} :
         /\ call' = [op |-> "detect_stagnation_anomaly", input |-> <<stagnation_months>>,
                     ret |-> r.ret]
         /\ params' = [params EXCEPT !.parameters = r.arg]
         /\ detector' = r.self
         /\ After(r, "stagnation")
  /\ UNCHANGED <<run, raw, handler, models, is_valid, clean_data, normalized_data,
                 scored_data, rescored, anomalies, alerts, app_vars>>

\* detector.detect_declining_growth_anomaly(processed_data, consecutive_periods)
Declining(consecutive_periods) ==
  /\ pc = "extracted"
  /\ \E r \in {detect_declining_growth_anomaly(detector, params.parameters,
                                               consecutive_periods)} :
         /\ call' = [op |-> "detect_declining_growth_anomaly",
                     input |-> <<consecutive_periods>>, ret |-> r.ret]
         /\ params' = [params EXCEPT !.parameters = r.arg]
         /\ detector' = r.self
         /\ After(r, "declining")
  /\ UNCHANGED <<run, raw, handler, models, is_valid, clean_data, normalized_data,
                 scored_data, rescored, anomalies, alerts, app_vars>>

\* compute_all_scores once more, on the scored table
Rescore ==
  /\ pc = "scored"
  /\ \E r \in {compute_all_scores(models, scored_data)} :
         /\ rescored' = r.ret
         /\ scored_data' = r.arg
         /\ models' = r.self
         /\ After(r, "rescored")
  /\ UNCHANGED <<run, raw, handler, detector, is_valid, clean_data, normalized_data, params,
                 anomalies, alerts, call, app_vars>>

\* anomalies = detector.detect_all_anomalies(processed_data)
Detect ==
  /\ pc = "rescored"
  /\ \E r \in {detect_all_anomalies(detector, params.parameters)} :
         /\ anomalies' = r.ret
         /\ params' = [params EXCEPT !.parameters = r.arg]
         /\ detector' = r.self
         /\ After(r, "detected")
  /\ UNCHANGED <<run, raw, handler, models, is_valid, clean_data, normalized_data,
                 scored_data, rescored, alerts, call, app_vars>>

\* alerts = detector.create_policy_alerts(processed_data, scored_data)
Alert ==
  /\ pc = "detected"
  /\ \E r \in {create_policy_alerts(detector, params.parameters, scored_data)} :
         /\ alerts' = IF r.exc = "none" THEN r.ret ELSE <<>>
         /\ params' = [params EXCEPT !.parameters = r.arg[1]]
         /\ scored_data' = r.arg[2]
         /\ detector' = r.self
         /\ After(r, "done")
  /\ UNCHANGED <<run, raw, handler, models, is_valid, clean_data, normalized_data,
                 rescored, anomalies, call, app_vars>>

\* state_summary = models.get_state_summary(scored_data)
StateSummary ==
  /\ pc = "done"
  /\ \E r \in {get_state_summary(models, scored_data)} :
         /\ call' = [op |-> "get_state_summary", input |-> <<>>, ret |-> r.ret]
         /\ scored_data' = r.arg
         /\ models' = r.self
         /\ After(r, "state_summarized")
  /\ UNCHANGED <<run, raw, handler, detector, is_valid, clean_data, normalized_data, params,
                 rescored, anomalies, alerts, app_vars>>

\* regional_summary = models.get_regional_summary(scored_data)
RegionalSummary ==
  /\ pc = "state_summarized"
  /\ \E r \in {get_regional_summary(models, scored_data)} :
         /\ call' = [op |-> "get_regional_summary", input |-> <<>>, ret |-> r.ret]
         /\ scored_data' = r.arg
         /\ models' = r.self
         /\ After(r, "summarized")
  /\ UNCHANGED <<run, raw, handler, detector, is_valid, clean_data, normalized_data, params,
                 rescored, anomalies, alerts, app_vars>>

\* risk_regions = models.get_top_risk_regions(scored_data, top_n)
TopRisk(top_n) ==
  /\ pc = "summarized"
  /\ \E r \in {get_top_risk_regions(models, scored_data, top_n)} :
         /\ call' = [op |-> "get_top_risk_regions", input |-> <<top_n>>, ret |-> r.ret]
         /\ scored_data' = r.arg
         /\ models' = r.self
         /\ After(r, "ranked")
  /\ UNCHANGED <<run, raw, handler, detector, is_valid, clean_data, normalized_data, params,
                 rescored, anomalies, alerts, app_vars>>

\* detector.get_priority_intervention_regions(processed_data, scored_data, top_n)
Priority(top_n) ==
  /\ pc = "summarized"
  /\ \E r \in {get_priority_intervention_regions(detector, params.parameters, scored_data,
                                                 top_n)} :
         /\ call' = [op |-> "get_priority_intervention_regions", input |-> <<top_n>>,
                     ret |-> r.ret]
         /\ params' = [params EXCEPT !.parameters = r.arg[1]]
         /\ scored_data' = r.arg[2]
         /\ detector' = r.self
         /\ After(r, "prioritized")
  /\ UNCHANGED <<run, raw, handler, models, is_valid, clean_data, normalized_data,
                 rescored, anomalies, alerts, app_vars>>

\* main once more with the same three objects
Again ==
  /\ pc \in {"done", "failed"}
  /\ run < MaxRuns
  /\ raw \in RerunTables
  /\ pc' = "start"
  /\ run' = run + 1
  /\ raw' = None
  /\ is_valid' = FALSE
  /\ clean_data' = None
  /\ normalized_data' = None
  /\ params' = NoParams
  /\ scored_data' = None
  /\ rescored' = None
  /\ anomalies' = None
  /\ alerts' = <<>>
  /\ call' = NoCall
  /\ exc' = "none"
  /\ UNCHANGED <<objects, app_vars>>

(***************************************************************************)
(* api.py and dashboard.py: the objects and tables each of them keeps, its  *)
(* ingestion of a table and what the caller gets.  They are two programs    *)
(* that share nothing: a behaviour is one of the service or one of the      *)
(* dashboard.                                                               *)
(***************************************************************************)
\* the module globals of api.py
ApiInit ==
  [data_handler |-> DataHandlerInit, scoring_models |-> ScoringModelsInit,
   anomaly_detector |-> AnomalyDetectorInit, processed_data |-> None, scores_data |-> None]

\* st.session_state as the first run of dashboard.py leaves it
SessionInit ==
  [data_handler |-> DataHandlerInit, scoring_models |-> ScoringModelsInit,
   anomaly_detector |-> AnomalyDetectorInit, processed_data |-> None, scores_data |-> None]

\* HTTPException(status_code, detail)
HTTPException(status_code, detail) == [status_code |-> status_code, detail |-> detail]

NoResponse == [status_code |-> 0]

\* the values of a column that are not missing
Unique(df, c) == {df.rows[i][c] : i \in {j \in 1..NRows(df) : ~IsNull(df.rows[j][c])}}

\* str() of the minimum or maximum of Year or Month
DateStr(x, isfloat) == IF IsNaN(x) THEN S_nan ELSE AsStr(x, isfloat)

\* df[df['Age_Group'] == a]['Enrolment_Count'].sum()
SumOfAge(df, a) ==
  SSum(Col(Where(df, LAMBDA r : r["Age_Group"] = Str(a)), "Enrolment_Count"))

get_summary_stats(self, df) ==
  Ret(self, df,
      [total_records |-> NRows(df),
       states |-> Cardinality(Unique(df, "State")),
       districts |-> Cardinality(Unique(df, "District")),
       date_range |-> <<DateStr(SMin(Col(df, "Year")), "Year" \in df.float), "-",
                        DateStr(SMin(Col(df, "Month")), "Month" \in df.float), " to ",
                        DateStr(SMax(Col(df, "Year")), "Year" \in df.float), "-",
                        DateStr(SMax(Col(df, "Month")), "Month" \in df.float)>>,
       child_enrolments |-> SumOfAge(df, S_Child),
       adult_enrolments |-> SumOfAge(df, S_Adult),
       total_enrolments |-> SSum(Col(df, "Enrolment_Count"))])

\* the except branch of ingest_data: the globals as they stand and the
\* response 400
Refused(g, e) == [g |-> g, response |-> HTTPException(400, e)]

\* POST /api/v1/ingest with a file that read_csv reads as t: the globals
\* after it and the response
ingest_data(g, t) ==
  Let([l \in {load_csv(g.data_handler, t)} |->
    IF l.exc # "none" THEN Refused([g EXCEPT !.data_handler = l.self], l.exc) ELSE
  Let([v \in {validate_schema(l.self, l.ret)} |->
    IF v.exc # "none" THEN Refused([g EXCEPT !.data_handler = v.self], v.exc) ELSE
  Let([c \in {clean_data_pipeline(v.self, v.arg)} |->
    IF c.exc # "none" THEN Refused([g EXCEPT !.data_handler = c.self], c.exc) ELSE
  Let([n \in {normalize_data(c.self, c.ret)} |->
    IF n.exc # "none" THEN Refused([g EXCEPT !.data_handler = n.self], n.exc) ELSE
  Let([e \in {extract_parameters(n.self, n.ret)} |->
    IF e.exc # "none" THEN Refused([g EXCEPT !.data_handler = e.self], e.exc) ELSE
  Let([g1 \in {[g EXCEPT !.data_handler = e.self, !.processed_data = e.ret.parameters]} |->
  Let([s \in {compute_all_scores(g1.scoring_models, g1.processed_data)} |->
    IF s.exc # "none" THEN Refused([g1 EXCEPT !.scoring_models = s.self], s.exc) ELSE
  Let([g2 \in {[g1 EXCEPT !.scoring_models = s.self, !.scores_data = s.ret]} |->
  Let([u \in {get_summary_stats(g2.data_handler, c.ret)} |->
    IF u.exc # "none" THEN Refused([g2 EXCEPT !.data_handler = u.self], u.exc) ELSE
    [g |-> [g2 EXCEPT !.data_handler = u.self],
     response |-> [status_code |-> 200, status |-> "success",
                   message |-> "Data ingested successfully",
                   records_processed |-> NRows(g2.processed_data),
                   summary |-> u.ret]]])])])])])])])])])

\* GET /health
health_check(g) ==
  [g |-> g,
   response |-> [status_code |-> 200, status |-> "healthy",
                 data_loaded |-> ~g.processed_data.none]]

\* the if chain that adds alert['priority']
PriorityOf(alert) ==
  IF alert.type = "CRITICAL_INCLUSION_GAP" THEN "P0"
  ELSE IF alert.type = "HIGH_EXCLUSION_RISK" THEN "P1"
  ELSE "P2"

\* the alert with its priority
WithPriority(alert) ==
  [type |-> alert.type, region |-> alert.region, key |-> alert.key, value |-> alert.value,
   message |-> alert.message, action |-> alert.action, priority |-> PriorityOf(alert)]

\* a variant of priority_order that ranks P0 last
priority_order_reversed(p) ==
  CASE p = "P0" -> 2
    [] p = "P1" -> 1
    [] p = "P2" -> 0
    [] OTHER -> 3

\* priority_order.get(p, 3)
priority_order(p) ==
  CASE p = "P0" -> 0
    [] p = "P1" -> 1
    [] p = "P2" -> 2
    [] OTHER -> 3

\* list.sort(key=Key): ascending keys, equal keys in their order in xs
SortedByKey(xs, Key(_)) ==
  Let([rank \in {Tup([i \in 1..Len(xs) |->
                   Cardinality({j \in 1..Len(xs) :
                      \/ Key(xs[j]) < Key(xs[i])
                      \/ Key(xs[j]) = Key(xs[i]) /\ j < i}) + 1])} |->
    Tup([r \in 1..Len(xs) |-> xs[CHOOSE i \in 1..Len(xs) : rank[i] = r]])])

\* the answer 400 of a read endpoint before any ingestion
NoData(g) == [g |-> g, response |-> HTTPException(400, "No data loaded. Use /api/v1/ingest first")]

\* the except branch of a read endpoint
Failed(g, e) == [g |-> g, response |-> HTTPException(500, e)]

\* Series.str.lower() of one cell
LowerCell(x) == IF IsStr(x) THEN Str(Map(x.m, ToLower)) ELSE NaN

\* GET /api/v1/metrics/state?state=...: state is the text of the query, empty
\* when there is none (None and '' are both false in "if state").  The
\* HTTPException 404 is raised inside the try block, and the except branch
\* takes every Exception.
get_state_metrics(g, state) ==
  IF g.scores_data.none THEN NoData(g)
  ELSE
  Let([s \in {get_state_summary(g.scoring_models, g.scores_data)} |->
  Let([g1 \in {[g EXCEPT !.scoring_models = s.self, !.scores_data = s.arg]} |->
    IF s.exc # "none" THEN Failed(g1, s.exc) ELSE
  Let([state_summary \in {IF state # <<>>
                            THEN Where(s.ret, LAMBDA r : LowerCell(r["State"])
                                                          = Str(Map(state, ToLower)))
                            ELSE s.ret} |->
    IF state # <<>> /\ NRows(state_summary) = 0 THEN Failed(g1, "HTTPException")
    ELSE [g |-> g1,
          response |-> [status_code |-> 200, status |-> "success",
                        count |-> NRows(state_summary), data |-> state_summary.rows]]])])])

\* GET /api/v1/alerts
get_policy_alerts(g) ==
  IF g.scores_data.none THEN NoData(g)
  ELSE
  Let([a \in {create_policy_alerts(g.anomaly_detector, g.processed_data, g.scores_data)} |->
  Let([g1 \in {[g EXCEPT !.anomaly_detector = a.self, !.processed_data = a.arg[1],
                         !.scores_data = a.arg[2]]} |->
    IF a.exc # "none" THEN Failed(g1, a.exc) ELSE
  Let([sorted \in {SortedByKey(Map(a.ret, WithPriority),
                               LAMBDA x : priority_order(x.priority))} |->
    [g |-> g1,
     response |-> [status_code |-> 200, status |-> "success", count |-> Len(sorted),
                   data |-> sorted]]])])])

\* GET /api/v1/anomalies
detect_anomalies(g) ==
  IF g.processed_data.none THEN NoData(g)
  ELSE
  Let([a \in {detect_all_anomalies(g.anomaly_detector, g.processed_data)} |->
  Let([g1 \in {[g EXCEPT !.anomaly_detector = a.self, !.processed_data = a.arg]} |->
    IF a.exc # "none" THEN Failed(g1, a.exc) ELSE
    [g |-> g1,
     response |-> [status_code |-> 200, status |-> "success",
                   anomaly_counts |->
                     [low_child_ratio |-> NRows(a.ret.low_child_ratio),
                      declining_growth |-> NRows(a.ret.declining_growth),
                      high_volatility |-> NRows(a.ret.high_volatility),
                      stagnation |-> NRows(a.ret.stagnation),
                      seasonal_deviation |-> NRows(a.ret.seasonal_deviation)]]]])])

\* st.error(str(e)) in the except branch of the upload
Errored(ss, e) == [ss |-> ss, shown |-> [kind |-> "error", text |-> e]]

\* the upload branch of the sidebar with a file that read_csv reads as t:
\* the session state after it and the message shown
upload(ss, t) ==
  Let([s0 \in {[ss EXCEPT !.processed_data = None]} |->
  Let([v \in {validate_schema(s0.data_handler, t)} |->
    IF v.exc # "none" THEN Errored([s0 EXCEPT !.data_handler = v.self], v.exc) ELSE
  Let([c \in {clean_data_pipeline(v.self, v.arg)} |->
    IF c.exc # "none" THEN Errored([s0 EXCEPT !.data_handler = c.self], c.exc) ELSE
  Let([n \in {normalize_data(c.self, c.ret)} |->
    IF n.exc # "none" THEN Errored([s0 EXCEPT !.data_handler = n.self], n.exc) ELSE
  Let([e \in {extract_parameters(n.self, n.ret)} |->
    IF e.exc # "none" THEN Errored([s0 EXCEPT !.data_handler = e.self], e.exc) ELSE
  Let([s1 \in {[s0 EXCEPT !.data_handler = e.self, !.processed_data = e.ret.parameters]} |->
  Let([s \in {compute_all_scores(s1.scoring_models, s1.processed_data)} |->
    IF s.exc # "none" THEN Errored([s1 EXCEPT !.scoring_models = s.self], s.exc) ELSE
    [ss |-> [s1 EXCEPT !.scoring_models = s.self, !.scores_data = s.ret],
     shown |-> [kind |-> "success", text |-> "Data loaded and processed!"]]])])])])])])])

\* the files of the requests: two that the pipeline takes, two that lack a
\* required column and one of two periods
AppTables ==
  {RawTable(<<WithCount(F(3))>>),
   RawTable(<<WithAge(Str(S_adults))>>),
   Without(RawTable(<<WithCount(F(3))>>), "Age_Group"),
   Without(RawTable(<<WithCount(F(3))>>), "Year"),
   RawTable(TwoPeriods)}

S_BIHAR == <<"B", "I", "H", "A", "R">>

S_Goa == <<"G", "o", "a">>

S_Kerala == <<"K", "e", "r", "a", "l", "a">>

\* the states asked for: none, two of the tables, one of no table
StateQueries == {<<>>, S_BIHAR, S_Goa, S_Kerala}

AppInit ==
  /\ api = ApiInit
  /\ response = NoResponse
  /\ session_state = SessionInit
  /\ shown = [kind |-> "none", text |-> ""]
  /\ request = [to |-> "none", table |-> None]

\* the service has not been asked yet, the dashboard has not been used yet
ServiceIdle == api = ApiInit /\ response = NoResponse

DashboardIdle == session_state = SessionInit /\ shown.kind = "none"

Ingest(t) ==
  /\ DashboardIdle
  /\ \E r \in {ingest_data(api, t)} :
         /\ api' = r.g
         /\ response' = r.response
  /\ request' = [to |-> "ingest", table |-> t]
  /\ UNCHANGED <<main_vars, session_state, shown>>

Health ==
  /\ DashboardIdle
  /\ \E r \in {health_check(api)} :
         /\ api' = r.g
         /\ response' = r.response
  /\ request' = [to |-> "health", table |-> None]
  /\ UNCHANGED <<main_vars, session_state, shown>>

Alerts ==
  /\ DashboardIdle
  /\ \E r \in {get_policy_alerts(api)} :
         /\ api' = r.g
         /\ response' = r.response
  /\ request' = [to |-> "alerts", table |-> None]
  /\ UNCHANGED <<main_vars, session_state, shown>>

Anomalies ==
  /\ DashboardIdle
  /\ \E r \in {detect_anomalies(api)} :
         /\ api' = r.g
         /\ response' = r.response
  /\ request' = [to |-> "anomalies", table |-> None]
  /\ UNCHANGED <<main_vars, session_state, shown>>

StateMetrics(state) ==
  /\ DashboardIdle
  /\ \E r \in {get_state_metrics(api, state)} :
         /\ api' = r.g
         /\ response' = r.response
  /\ request' = [to |-> "state_metrics", table |-> None, state |-> state]
  /\ UNCHANGED <<main_vars, session_state, shown>>

Upload(t) ==
  /\ ServiceIdle
  /\ \E r \in {upload(session_state, t)} :
         /\ session_state' = r.ss
         /\ shown' = r.shown
  /\ request' = [to |-> "upload", table |-> t]
  /\ UNCHANGED <<main_vars, api, response>>

Init == MainInit /\ AppInit

Next ==
  \/ \E t \in (IF run = 1 THEN RawTables \cup {None} ELSE RerunTables) : Load(t)
  \/ Validate
  \/ Clean
  \/ Reclean
  \/ Normalize
  \/ Extract
  \/ \E p \in Orders(NRows(raw)) : Reorder(p)
  \/ Score
  \/ \E w \in WEIGHTS : Fers(w)
  \/ Liss
  \/ \E stagnation_months \in 1..MaxWindow : Stagnation(stagnation_months)
  \/ \E consecutive_periods \in 1..MaxWindow : Declining(consecutive_periods)
  \/ Rescore
  \/ Detect
  \/ Alert
  \/ StateSummary
  \/ RegionalSummary
  \/ \E top_n \in 1..MaxTop : TopRisk(top_n)
  \/ \E top_n \in 1..MaxTop : Priority(top_n)
  \/ Again

Spec == Init /\ [][Next]_vars

NextApp ==
  \/ \E t \in AppTables : Ingest(t)
  \/ Health
  \/ Alerts
  \/ Anomalies
  \/ \E state \in StateQueries : StateMetrics(state)
  \/ \E t \in AppTables : Upload(t)

SpecApp == Init /\ [][NextApp]_vars
(***************************************************************************)
(* Properties of the scored table.                                          *)
(***************************************************************************)
\* lo <= x <= hi, x a number
Within(x, lo, hi) == FGe(x, lo) /\ FLe(x, hi)

\* C1: every row of the table that compute_all_scores makes of the output
\* of extract_parameters has 0 <= FERS <= 1.
C1_FersWithinUnit ==
  \A i \in 1..NRows(scored_data) : Within(scored_data.rows[i]["FERS"], FZero, FOne)

\* a scored table whose first row, the first period of its region, has no
\* FERS value
C1_FirstPeriodScored ==
  /\ pc = "scored"
  /\ NRows(scored_data) > 0
  /\ IsNaN(scored_data.rows[1]["Enrolment_Volatility"])
  /\ IsNaN(scored_data.rows[1]["FERS"])

\* C2: for every row with C >= 0 and A >= 0, 0 <= CEPS <= 100, and the
\* level is Critical exactly when CEPS < 30, Moderate exactly when
\* 30 <= CEPS < 60, Healthy exactly when CEPS >= 60.
C2_CepsAndLevel ==
  \A t \in {scored_data, models.ceps_scores} : \A i \in 1..NRows(t) :
    LET r == t.rows[i]
    IN  FGe(r["C"], FZero) /\ FGe(r["A"], FZero) =>
          /\ Within(r["CEPS"], FZero, F(100))
          /\ r["Inclusion_Level"] = L_Critical <=> FLt(r["CEPS"], F(30))
          /\ r["Inclusion_Level"] = L_Moderate <=>
               FGe(r["CEPS"], F(30)) /\ FLt(r["CEPS"], F(60))
          /\ r["Inclusion_Level"] = L_Healthy <=> FGe(r["CEPS"], F(60))

\* a scored row with CEPS exactly 30, which is Moderate
C2_AtThirty ==
  \E i \in 1..NRows(scored_data) :
    /\ scored_data.rows[i]["CEPS"] = F(30)
    /\ scored_data.rows[i]["Inclusion_Level"] = L_Moderate

\* C3: every row of a scored table has -10 <= IGI <= 1 and 0 <= LISS <= 1.
C3_IgiAndLissClipped ==
  \A i \in 1..NRows(scored_data) :
    /\ Within(scored_data.rows[i]["IGI"], F(-10), FOne)
    /\ Within(scored_data.rows[i]["LISS"], FZero, FOne)

\* a scored row with no adult and some child enrolment: IGI is clipped at -10
C3_NoAdults ==
  \E i \in 1..NRows(scored_data) :
    /\ scored_data.rows[i]["A"] = FZero
    /\ FGt(scored_data.rows[i]["C"], F(1000000))
    /\ scored_data.rows[i]["IGI"] = F(-10)

\* C4: compute_all_scores applied to its own output returns a table equal to
\* that output: the same columns in the same order, the same rows.
C4_Idempotent == pc = "rescored" => ~rescored.none /\ rescored = scored_data

\* a rescored table in which a region has a second period, with a volatility
C4_RescoredSeries ==
  /\ pc = "rescored"
  /\ \E i \in 1..NRows(rescored) : FGt(rescored.rows[i]["Enrolment_Volatility"], FZero)

\* C5: the outputs of a run are those of the same calls on objects just
\* constructed, whatever the three objects did in earlier runs.
C5_Deterministic ==
  pc = "done" =>
    \A c \in {clean_data_pipeline(DataHandlerInit, raw)} :
    \A n \in {normalize_data(DataHandlerInit, c.ret)} :
    \A e \in {extract_parameters(DataHandlerInit, n.ret)} :
    \A s \in {compute_all_scores(ScoringModelsInit, e.ret.parameters)} :
    \A d \in {detect_all_anomalies(AnomalyDetectorInit, e.ret.parameters)} :
    \A a \in {create_policy_alerts(AnomalyDetectorInit, e.ret.parameters, s.ret)} :
      /\ clean_data = c.ret
      /\ normalized_data = n.ret
      /\ params = e.ret
      /\ scored_data = s.ret
      /\ anomalies = d.ret
      /\ alerts = a.ret

\* a second run that ended, on objects that hold the tables of a first run
\* on another table
C5_SecondRun ==
  /\ pc = "done"
  /\ run = 2
  /\ NRows(scored_data) = 2
  /\ NRows(models.fers_scores) = 2

(***************************************************************************)
(* Properties of cleaning and extraction.                                   *)
(***************************************************************************)
\* the sum of Enrolment_Count over the rows of df with the key grp and the
\* age group a
CountOf(df, grp, a) ==
  SSum(Col(Where(df, LAMBDA r : /\ <<r["Year"], r["Month"], r["State"], r["District"]>> = grp
                                /\ r["Age_Group"] = Str(a)),
           "Enrolment_Count"))

\* C6: the parameter table has exactly one row for every combination of
\* Year, Month, State and District present in the input of
\* extract_parameters, with C and A the sums of the Child and Adult counts
\* of the combination (0 for none) and T = C + A.
C6_OneRowPerCombination ==
  pc = "extracted" =>
    /\ \A i \in 1..NRows(normalized_data) :
         Cardinality({j \in 1..NRows(params.parameters) :
                        KeyOf(params.parameters, PIVOT_INDEX, j)
                          = KeyOf(normalized_data, PIVOT_INDEX, i)}) = 1
    /\ \A j \in 1..NRows(params.parameters) :
         LET r == params.parameters.rows[j]
             grp == KeyOf(params.parameters, PIVOT_INDEX, j)
         IN  /\ \E i \in 1..NRows(normalized_data) : KeyOf(normalized_data, PIVOT_INDEX, i) = grp
             /\ r["C"] = CountOf(normalized_data, grp, S_Child)
             /\ r["A"] = CountOf(normalized_data, grp, S_Adult)
             /\ r["T"] = FAdd(r["C"], r["A"])

\* a cleaned table of two combinations, the second with no Age_Group in its
\* only row, and one parameter row
C6_NoAgeGroupNoRow ==
  /\ pc = "extracted"
  /\ NRows(normalized_data) = 2
  /\ IsNaN(normalized_data.rows[2]["Age_Group"])
  /\ NRows(params.parameters) = 1
  /\ KeyOf(params.parameters, PIVOT_INDEX, 1) # KeyOf(normalized_data, PIVOT_INDEX, 2)

\* the condition of cleaning on a raw row
Kept(r) ==
  /\ ~IsNull(r["Year"]) /\ Within(r["Year"], F(2010), F(2026))
  /\ ~IsNull(r["Month"]) /\ Within(r["Month"], F(1), F(12))
  /\ ~IsNull(r["State"]) /\ ~IsNull(r["District"]) /\ ~IsNull(r["Enrolment_Count"])
  /\ FGe(IF IsStr(r["Enrolment_Count"]) THEN ParseFloat(r["Enrolment_Count"].m)
         ELSE r["Enrolment_Count"], FZero)

\* C7: the rows of the cleaned table are the raw rows with Year and Month
\* present and in range, State, District and Enrolment_Count present, and a
\* count that parses to a number >= 0; each once, in the order of the raw
\* table, and no other row.
C7_KeptRows ==
  pc = "cleaned" =>
    clean_data.index =
      SelectSeq(raw.index, LAMBDA l : \E i \in 1..NRows(raw) : raw.index[i] = l /\ Kept(raw.rows[i]))

\* a cleaned table that kept a row with the count "12" or "6.99999999" and
\* dropped another row
C7_TextCountKept ==
  /\ pc = "cleaned"
  /\ NRows(clean_data) = 1
  /\ NRows(raw) = 2
  /\ \E i \in 1..NRows(raw) :
       raw.index[i] = clean_data.index[1] /\ IsStr(raw.rows[i]["Enrolment_Count"])

\* C8: every row of the cleaned table has the Age_Group Child or Adult.
C8_ChildOrAdult ==
  \A i \in 1..NRows(clean_data) :
    clean_data.rows[i]["Age_Group"] \in {Str(S_Child), Str(S_Adult)}

\* a cleaned table with a row of the Age_Group Senior and a row without one
C8_SeniorKept ==
  /\ pc = "cleaned"
  /\ \E i \in 1..NRows(clean_data) : clean_data.rows[i]["Age_Group"] = Str(S_Senior)
  /\ \E i \in 1..NRows(clean_data) : IsNaN(clean_data.rows[i]["Age_Group"])

(***************************************************************************)
(* Properties of the failures.                                              *)
(***************************************************************************)
\* the tables an ingestion stores: the raw and the cleaned table of the
\* DataHandler, the parameter table and the score table
Stored(g) ==
  <<g.data_handler.raw_data, g.data_handler.clean_data, g.processed_data, g.scores_data>>

\* C9: an ingestion of a table that lacks a required column fails for the
\* caller and leaves the stored raw, cleaned, parameter and score tables as
\* they were.
C9_FailedIngestionKeepsTables ==
  [][/\ request'.to = "ingest" /\ ~(Range(REQUIRED_COLUMNS) \subseteq Columns(request'.table))
          => response'.status_code = 400 /\ Stored(api') = Stored(api)
     /\ request'.to = "upload" /\ ~(Range(REQUIRED_COLUMNS) \subseteq Columns(request'.table))
          => shown'.kind = "error" /\ Stored(session_state') = Stored(session_state)]_vars

\* a refused ingestion after which the service holds the refused table as
\* its raw table, next to the parameter table of an earlier ingestion
C9_RefusedTableStored ==
  /\ request.to = "ingest"
  /\ ~(Range(REQUIRED_COLUMNS) \subseteq Columns(request.table))
  /\ response.status_code = 400
  /\ api.data_handler.raw_data = request.table
  /\ ~api.processed_data.none

\* C10: validate_schema returns TRUE exactly when the six required columns
\* are there, FALSE without raising when one is missing, and changes neither
\* the table nor a field of the DataHandler.
C10_ValidateSchema ==
  [][pc = "loaded" /\ pc' # "loaded" =>
       /\ pc' = "validated"
       /\ exc' = "none"
       /\ is_valid' = (Range(REQUIRED_COLUMNS) \subseteq Columns(raw))
       /\ raw' = raw
       /\ handler' = handler]_vars

\* validate_schema has returned FALSE for a table that lacks a column
C10_ReturnedFalse ==
  /\ pc = "validated"
  /\ ~is_valid
  /\ ~(Range(REQUIRED_COLUMNS) \subseteq Columns(raw))

(***************************************************************************)
(* Properties of the weights, the stability score and the alerts.           *)
(***************************************************************************)
\* the weights w as calculate_fers uses them: divided by their sum when
\* the sum is more than 0.01 off 1
Renormalized(w) ==
  LET total == FAdd(FAdd(w[1], w[2]), w[3])
  IN  IF FGt(FAbs(FSub(total, FOne)), Dec(1, 2))
      THEN [i \in 1..3 |-> FDiv(w[i], total)]
      ELSE w

\* C11: calculate_fers with weights of which one is negative or not finite
\* after the renormalization ends with an error and returns no scored table.
C11_BadWeightsRefused ==
  call.op = "calculate_fers"
    /\ (\E i \in 1..3 : ~IsNum(Renormalized(call.input)[i])
                          \/ FLt(Renormalized(call.input)[i], FZero))
    => exc # "none" /\ call.ret.none

\* calculate_fers has returned a scored table for the weights 0.7, 0.6, -0.3
C11_NegativeWeightScored ==
  /\ pc = "weighted"
  /\ call.op = "calculate_fers"
  /\ call.input = <<Dec(7, 1), Dec(6, 1), Dec(-3, 1)>>
  /\ exc = "none"
  /\ \E i \in 1..NRows(call.ret) : IsNum(call.ret.rows[i]["FERS"])

\* the rows of df of the region of row i
RegionRows(df, i) == {j \in 1..NRows(df) : KeyOf(df, REGION, j) = KeyOf(df, REGION, i)}

\* C12: every row of the scored table whose region has that one row only
\* has LISS = 1.
C12_SinglePeriodStable ==
  \A i \in 1..NRows(scored_data) :
    Cardinality(RegionRows(scored_data, i)) = 1 => scored_data.rows[i]["LISS"] = FOne

\* a scored table with a region of one period, of LISS 1 and CEPS 100, and
\* a region of two periods, of LISS below 0.1
C12_AmongUnstable ==
  \E i, j \in 1..NRows(scored_data) :
    /\ Cardinality(RegionRows(scored_data, i)) = 1
    /\ scored_data.rows[i]["LISS"] = FOne
    /\ Cardinality(RegionRows(scored_data, j)) = 2
    /\ FLt(scored_data.rows[j]["LISS"], Dec(1, 1))

\* the condition of each kind of alert on a row of the scored table
Alerting(type, r) ==
  CASE type = "CRITICAL_INCLUSION_GAP" -> FLt(r["CEPS"], F(20))
    [] type = "HIGH_EXCLUSION_RISK" -> FGt(r["FERS"], Dec(75, 2))
    [] type = "UNSTABLE_ENROLMENT" -> FLt(r["LISS"], Dec(4, 1))

ALERT_TYPES == {"CRITICAL_INCLUSION_GAP", "HIGH_EXCLUSION_RISK", "UNSTABLE_ENROLMENT"}

\* the score an alert of the kind type reports
ScoreOf(type) ==
  CASE type = "CRITICAL_INCLUSION_GAP" -> "CEPS"
    [] type = "HIGH_EXCLUSION_RISK" -> "FERS"
    [] type = "UNSTABLE_ENROLMENT" -> "LISS"

\* C13: the alerts of create_policy_alerts are, for each of the three kinds,
\* one for each row of the scored table that meets the condition of the
\* kind, with the region and the score of the row, and no other alert.
C13_OneAlertPerRowAndKind ==
  pc = "done" =>
    /\ \A a \in 1..Len(alerts) : alerts[a].type \in ALERT_TYPES
    /\ \A type \in ALERT_TYPES :
         /\ Cardinality({a \in 1..Len(alerts) : alerts[a].type = type})
              = Cardinality({i \in 1..NRows(scored_data) : Alerting(type, scored_data.rows[i])})
         /\ \A i \in 1..NRows(scored_data) :
              Alerting(type, scored_data.rows[i]) =>
                \E a \in 1..Len(alerts) :
                  /\ alerts[a].type = type
                  /\ alerts[a].region = RegionOf(scored_data.rows[i])
                  /\ alerts[a].value = scored_data.rows[i][ScoreOf(type)]

\* a row that meets the three conditions, in a table where another row
\* meets two: five alerts
C13_ThreeAlertsForOneRow ==
  /\ pc = "done"
  /\ Len(alerts) = 5
  /\ \E i \in 1..NRows(scored_data) :
       \A type \in ALERT_TYPES : Alerting(type, scored_data.rows[i])

\* the alerts of the kind type among xs, in their order
OfType(xs, type) == SelectSeq(xs, LAMBDA x : x.type = type)

\* the positions of the rows of df that meet the condition of the kind type
RowsAlerting(df, type) ==
  SelectSeq([i \in 1..NRows(df) |-> i], LAMBDA i : Alerting(type, df.rows[i]))

\* the place of a priority in the order P0, P1, P2
RankOf(p) == CHOOSE n \in 0..2 : <<"P0", "P1", "P2">>[n + 1] = p

SummaryRows(summary, df, i) ==
  {g \in 1..NRows(summary) : KeyOf(summary, REGION, g) = KeyOf(df, REGION, i)}

\* C15: get_regional_summary returns exactly one row per distinct (State,
\* District) pair of the scored table: each row of the scored table has one
\* row of the summary with its pair, and each row of the summary has the pair
\* of a row of the scored table
C15_OneRowPerRegion ==
  (pc = "summarized" /\ call.op = "get_regional_summary") =>
    /\ \A i \in 1..NRows(scored_data) :
         Cardinality(SummaryRows(call.ret, scored_data, i)) = 1
    /\ \A g \in 1..NRows(call.ret) :
         \E i \in 1..NRows(scored_data) : g \in SummaryRows(call.ret, scored_data, i)

\* a summary of two regions, one of several periods and one whose every FERS
\* is undefined
C15_RegionWithoutFers ==
  /\ pc = "summarized"
  /\ call.op = "get_regional_summary"
  /\ NRows(call.ret) = 2
  /\ NRows(scored_data) > 2
  /\ \E g \in 1..2 :
       /\ IsNaN(call.ret.rows[g]["Avg_FERS"])
       /\ \A i \in 1..NRows(scored_data) :
            g \in SummaryRows(call.ret, scored_data, i) => IsNaN(scored_data.rows[i]["FERS"])

\* the regions of the table
Regions(df) == {KeyOf(df, REGION, i) : i \in 1..NRows(df)}

\* the mean FERS of the region k of the scored table
MeanFers(df, k) == SMean(GroupCol(df, REGION, k, "FERS"))

\* x is not to come after y in non-increasing order: y is not greater, and
\* y is defined only if x is
NotAfter(x, y) == ~FGt(y, x) /\ (IsNaN(x) => IsNaN(y))

\* C16: get_top_risk_regions(n) returns min(n, number of regions) rows, each
\* the summary row of a region of its own with that region's mean FERS, in
\* non-increasing order of mean FERS, and no region left out has a mean FERS
\* greater than that of a region returned
C16_TopRiskRegions ==
  (pc = "ranked" /\ call.op = "get_top_risk_regions") =>
    \A returned \in {{KeyOf(call.ret, REGION, g) : g \in 1..NRows(call.ret)}} :
      /\ NRows(call.ret) = MinI(call.input[1], Cardinality(Regions(scored_data)))
      /\ Cardinality(returned) = NRows(call.ret)
      /\ returned \subseteq Regions(scored_data)
      /\ \A g \in 1..NRows(call.ret) :
           call.ret.rows[g] = RegionalRow(scored_data, KeyOf(call.ret, REGION, g))
      /\ \A a, b \in 1..NRows(call.ret) :
           a < b => NotAfter(call.ret.rows[a]["Avg_FERS"], call.ret.rows[b]["Avg_FERS"])
      /\ \A k \in Regions(scored_data) \ returned : \A g \in 1..NRows(call.ret) :
           NotAfter(call.ret.rows[g]["Avg_FERS"], MeanFers(scored_data, k))

\* the top region of two, both with a mean FERS: the one returned is the
\* second in the order of the keys and the one left out has a smaller mean
C16_SecondRegionFirst ==
  /\ pc = "ranked"
  /\ call.op = "get_top_risk_regions"
  /\ call.input = <<1>>
  /\ NRows(call.ret) = 1
  /\ Cardinality(Regions(scored_data)) = 2
  /\ \E k \in Regions(scored_data) :
       /\ KeyCmp(k, KeyOf(call.ret, REGION, 1)) < 0
       /\ FLt(MeanFers(scored_data, k), call.ret.rows[1]["Avg_FERS"])

\* C17: no pipeline operation changes the table it receives: in every step
\* of the pipeline the tables given to the operation of that step have the
\* same columns and values after it as before
C17_TablesUnchanged ==
  [][pc' # "start" =>
       /\ pc \in {"loaded", "validated"} => raw' = raw
       /\ pc = "cleaned" => clean_data' = clean_data
       /\ pc = "normalized" => normalized_data' = normalized_data
       /\ pc \in {"extracted", "rescored", "detected", "summarized"} => params' = params
       /\ pc \in {"scored", "detected", "done", "state_summarized", "summarized"} =>
            scored_data' = scored_data]_vars

\* get_priority_intervention_regions has returned and the score table it
\* was given has a column more
C17_ScoreTableChanged ==
  /\ pc = "prioritized"
  /\ call.op = "get_priority_intervention_regions"
  /\ "Intervention_Priority" \in Columns(scored_data)
  /\ "Intervention_Priority" \notin Columns(rescored)
  /\ Without(scored_data, "Intervention_Priority") = rescored

\* the parameter table and the score table that g publishes are both absent,
\* or both present with the scores computed from the parameters
SameIngestion(g) ==
  /\ g.processed_data.none <=> g.scores_data.none
  /\ (~g.processed_data.none /\ ~g.scores_data.none) =>
       g.scores_data = compute_all_scores(g.scoring_models, g.processed_data).ret

\* C18: whenever a read request or a render of the dashboard can observe
\* the shared state, that is between two requests, the published parameter
\* table and the published score table come from the same ingestion, and
\* never is one of the two present while the other is absent
C18_SameIngestion == SameIngestion(api) /\ SameIngestion(session_state)

\* an upload has failed after one that succeeded: the dashboard keeps the
\* scores and has no parameters
C18_ScoresWithoutParameters ==
  /\ request.to = "upload"
  /\ shown.kind = "error"
  /\ session_state.processed_data.none
  /\ ~session_state.scores_data.none

\* the rows of df in the group of row i, by State, District and Age_Group
Observations(df, i) ==
  {j \in 1..NRows(df) : KeyOf(df, NORMALIZE_KEYS, j) = KeyOf(df, NORMALIZE_KEYS, i)}

\* C19: in the output of normalize_data every row of a group with a single
\* observation has a defined z-score equal to 0, and every row of every
\* group has a min-max value in [0, 1]
C19_NormalizedValues ==
  (pc = "normalized") =>
    \A i \in 1..NRows(normalized_data) :
      HasKey(normalized_data, NORMALIZE_KEYS, i) =>
        /\ Cardinality(Observations(normalized_data, i)) = 1 =>
             normalized_data.rows[i]["Enrolment_ZScore"] = FZero
        /\ Within(normalized_data.rows[i]["Enrolment_MinMax"], FZero, F(1))

\* a group with a single observation whose z-score is undefined
C19_SingleObservationUndefined ==
  /\ pc = "normalized"
  /\ \E i \in 1..NRows(normalized_data) :
       /\ HasKey(normalized_data, NORMALIZE_KEYS, i)
       /\ Cardinality(Observations(normalized_data, i)) = 1
       /\ IsNaN(normalized_data.rows[i]["Enrolment_ZScore"])
       /\ normalized_data.rows[i]["Enrolment_MinMax"] = FZero

\* the C values of the region of row i of df at the positions max(0, p-2)
\* .. p of its series, p the position of row i; the rows of df are in
\* chronological order within each region
WindowOfC(df, i) ==
  LET g == GroupOf(df, REGION, i)
      p == PlaceIn(g, i)
  IN  [q \in 1..(p - MaxI(1, p - 2) + 1) |-> df.rows[g[MaxI(1, p - 2) + q - 1]]["C"]]

\* C20: in the output of extract_parameters, Enrolment_Volatility of each
\* row equals the population standard deviation of its region's C values
\* over the positions max(0, i-2) .. i of the region's series; it is defined
\* at the first and second period, and 0 at the first
C20_PopulationVolatility ==
  (pc = "extracted" /\ ~params.parameters.none) =>
    \A i \in 1..NRows(params.parameters) :
      params.parameters.rows[i]["Enrolment_Volatility"]
        = SStdD(WindowOfC(params.parameters, i), 0)

\* a region of four periods: no volatility at the first, and at the fourth
\* the sample standard deviation of the last three, greater than the
\* population one
C20_SampleVolatility ==
  /\ pc = "extracted"
  /\ ~params.parameters.none
  /\ NRows(params.parameters) = 4
  /\ Cardinality(Regions(params.parameters)) = 1
  /\ IsNaN(params.parameters.rows[1]["Enrolment_Volatility"])
  /\ params.parameters.rows[4]["Enrolment_Volatility"]
       = SStdD(WindowOfC(params.parameters, 4), 1)
  /\ FGt(params.parameters.rows[4]["Enrolment_Volatility"],
         SStdD(WindowOfC(params.parameters, 4), 0))

\* the keys (State, District, Year, Month) of the rows of df
PeriodKeys(df) == {KeyOf(df, REGION_PERIOD, i) : i \in 1..NRows(df)}

\* row i of df is not the first period of its region and its child count is
\* less than 10 away from that of the region's period before it
NearZeroGrowth(df, i) ==
  LET g == GroupOf(df, REGION, i)
      p == PlaceIn(g, i)
  IN  p > 1 /\ FLt(FAbs(FSub(df.rows[i]["C"], df.rows[g[p - 1]]["C"])), F(10))

\* row i and the n - 1 periods of its region immediately before it all
\* satisfy Holds
Trailing(df, i, n, Holds(_)) ==
  LET g == GroupOf(df, REGION, i)
      p == PlaceIn(g, i)
  IN  p >= n /\ \A q \in (p - n + 1)..p : Holds(g[q])

\* C21: detect_stagnation_anomaly returns a row exactly when that row and
\* the stagnation_months - 1 periods immediately before it in the same
\* region each have a child count less than 10 away from that of the
\* region's period before, so that the answer for a row depends on the
\* series of its own region only
C21_StagnationWithinRegion ==
  (pc = "stagnation") =>
    PeriodKeys(call.ret)
      = {KeyOf(params.parameters, REGION_PERIOD, i) :
           i \in {j \in 1..NRows(params.parameters) :
                    Trailing(params.parameters, j, call.input[1],
                             LAMBDA q : NearZeroGrowth(params.parameters, q))}}

\* the first period of a region is returned, its child count being less
\* than 10 away from the last one of the region before it in the table
C21_FirstPeriodReturned ==
  /\ pc = "stagnation"
  /\ call.input = <<1>>
  /\ \E i \in 2..NRows(params.parameters) :
       /\ KeyOf(params.parameters, REGION_PERIOD, i) \in PeriodKeys(call.ret)
       /\ KeyOf(params.parameters, REGION, i) # KeyOf(params.parameters, REGION, i - 1)
       /\ PlaceIn(GroupOf(params.parameters, REGION, i), i) = 1

\* the place of row i of df in the series of its region
PlaceInRegion(df, i) == PlaceIn(GroupOf(df, REGION, i), i)

\* C22: detect_declining_growth_anomaly returns a row exactly when that row
\* and the consecutive_periods - 1 periods immediately before it in the same
\* region all have Child_Growth_Rate < growth_threshold; a row whose window
\* reaches the first period of its region, or beyond it, is never returned
C22_DecliningWindow ==
  (pc = "declining") =>
    /\ PeriodKeys(call.ret)
         = {KeyOf(params.parameters, REGION_PERIOD, i) :
              i \in {j \in 1..NRows(params.parameters) :
                       Trailing(params.parameters, j, call.input[1],
                                LAMBDA q : FLt(params.parameters.rows[q]["Child_Growth_Rate"],
                                               detector.growth_threshold))}}
    /\ \A i \in 1..NRows(params.parameters) :
         KeyOf(params.parameters, REGION_PERIOD, i) \in PeriodKeys(call.ret) =>
           PlaceInRegion(params.parameters, i) > call.input[1]

\* a region of three periods that declines twice: with a window of two the
\* third period is returned and the second is not
C22_ThirdPeriodReturned ==
  /\ pc = "declining"
  /\ call.input = <<2>>
  /\ NRows(params.parameters) = 3
  /\ NRows(call.ret) = 1
  /\ KeyOf(call.ret, REGION_PERIOD, 1) = KeyOf(params.parameters, REGION_PERIOD, 3)
  /\ PlaceInRegion(params.parameters, 3) = 3
  /\ FLt(params.parameters.rows[2]["Child_Growth_Rate"], detector.growth_threshold)

\* x and y are the same value, or two numbers less than 10^-12 apart
Near(x, y) ==
  \/ x = y
  \/ IsNum(x) /\ IsNum(y) /\ FLt(FAbs(FSub(x, y)), Dec(1, 12))

\* C23: in the output of extract_parameters the rows are in the order of
\* (State, District, Year, Month), Child_Growth_Rate is undefined on the
\* first period of every region, and on every later period it is
\* (C[i] - C[i-1]) / C[i-1] with C[i-1] of the same region's period before
C23_GrowthWithinRegion ==
  (pc = "extracted" /\ ~params.parameters.none) =>
    /\ \A i, j \in 1..NRows(params.parameters) :
         i < j => KeyCmp(KeyOf(params.parameters, REGION_PERIOD, i),
                         KeyOf(params.parameters, REGION_PERIOD, j)) < 0
    /\ \A i \in 1..NRows(params.parameters) :
         \A g \in {GroupOf(params.parameters, REGION, i)} :
         \A p \in {PlaceIn(g, i)} :
           IF p = 1 THEN IsNaN(params.parameters.rows[i]["Child_Growth_Rate"])
           ELSE Near(params.parameters.rows[i]["Child_Growth_Rate"],
                     FDiv(FSub(params.parameters.rows[i]["C"],
                               params.parameters.rows[g[p - 1]]["C"]),
                          params.parameters.rows[g[p - 1]]["C"]))

\* two regions of two periods each: the pivot has them period by period,
\* the output region by region, and the first period of the second region
\* has no growth
C23_SecondRegionStarts ==
  /\ pc = "extracted"
  /\ ~params.parameters.none
  /\ params.parameters.index = <<0, 2, 1, 3>>
  /\ KeyOf(params.parameters, REGION, 2) # KeyOf(params.parameters, REGION, 3)
  /\ IsNaN(params.parameters.rows[3]["Child_Growth_Rate"])
  /\ params.parameters.rows[4]["Child_Growth_Rate"] = F(-1)

\* the tables a and b have the same rows, and the same cells in the columns
\* cols
SameColumns(a, b, cols) ==
  /\ NRows(a) = NRows(b)
  /\ a.index = b.index
  /\ \A i \in 1..NRows(a) : \A c \in cols : a.rows[i][c] = b.rows[i][c]

\* C24: calculate_fers applied to a parameter table without CEPS and IGI
\* gives on every row the FERS and the Exclusion_Risk_Level that
\* compute_all_scores gives on that table, and calculate_liss applied to a
\* parameter table without CEPS gives the LISS and the Stability_Level that
\* compute_all_scores gives
C24_LazyScores ==
  /\ (/\ pc = "weighted"
      /\ call.input = <<W1, W2, W3>>
      /\ {"CEPS", "IGI"} \cap Columns(params.parameters) = {})
       => SameColumns(call.ret, compute_all_scores(models, params.parameters).ret,
                      {"FERS", "Exclusion_Risk_Level"})
  /\ (pc = "stability" /\ "CEPS" \notin Columns(params.parameters))
       => SameColumns(call.ret, compute_all_scores(models, params.parameters).ret,
                      {"LISS", "Stability_Level"})

\* calculate_fers has scored a parameter table of two periods without CEPS
\* and IGI, the second period at high risk
C24_ScoredWithoutCeps ==
  /\ pc = "weighted"
  /\ call.input = <<W1, W2, W3>>
  /\ {"CEPS", "IGI"} \cap Columns(params.parameters) = {}
  /\ {"CEPS", "IGI", "FERS"} \subseteq Columns(call.ret)
  /\ NRows(call.ret) = 2
  /\ FGt(call.ret.rows[2]["FERS"], Dec(75, 2))
  /\ FGt(call.ret.rows[1]["CEPS"], FZero)

\* the state asked for is that of no row of the table, whatever the case
\* of the letters
NoSuchState(df, state) ==
  \A i \in 1..NRows(df) : LowerCell(df.rows[i]["State"]) # Str(Map(state, ToLower))

\* C25: with data loaded, a request of the state metrics that names a state
\* that does not occur in the state summary is answered 404
C25_UnknownStateNotFound ==
  (/\ request.to = "state_metrics"
   /\ ~api.scores_data.none
   /\ request.state # <<>>
   /\ NoSuchState(api.scores_data, request.state))
    => response.status_code = 404

\* Kerala asked for with the data of another state loaded: the answer is 500
C25_ServerError ==
  /\ request.to = "state_metrics"
  /\ request.state = S_Kerala
  /\ ~api.scores_data.none
  /\ NRows(api.scores_data) > 0
  /\ response = HTTPException(500, "HTTPException")

VarianceOfCeps(df, k) == FillNa0(SVar(GroupCol(df, REGION, k, "CEPS")))

\* no region has a greater variance than k
LargestVariance(df, k) ==
  \A other \in Regions(df) : ~FGt(VarianceOfCeps(df, other), VarianceOfCeps(df, k))

\* every row of every region of the largest variance has LISS < 0.4 and is
\* Highly_Unstable, and there is an UNSTABLE_ENROLMENT alert
LargestIsUnstable ==
  /\ \A i \in 1..NRows(scored_data) :
       LargestVariance(scored_data, KeyOf(scored_data, REGION, i)) =>
         /\ FLt(scored_data.rows[i]["LISS"], Dec(4, 1))
         /\ scored_data.rows[i]["Stability_Level"] = L_Highly_Unstable
  /\ OfType(alerts, "UNSTABLE_ENROLMENT") # <<>>

\* every region has the variance 0 and there is no UNSTABLE_ENROLMENT alert
NoVarianceNoAlert ==
  (\A k \in Regions(scored_data) : VarianceOfCeps(scored_data, k) = FZero)
    => OfType(alerts, "UNSTABLE_ENROLMENT") = <<>>

\* C27 as stated: whenever a region of the scored table has a variance of
\* CEPS other than 0, every row of the region with the largest variance has
\* LISS < 0.4 and Stability_Level Highly_Unstable and there is an
\* UNSTABLE_ENROLMENT alert; when every region has the variance 0 there is
\* none
C27_AnyVarianceUnstable ==
  (pc = "done") =>
    /\ (\E k \in Regions(scored_data) : VarianceOfCeps(scored_data, k) # FZero)
         => LargestIsUnstable
    /\ NoVarianceNoAlert

\* C27 amended: whenever a region of the scored table has a variance of CEPS
\* greater than 2 * 10^-8, every row of the region with the largest variance
\* has LISS < 0.4 and Stability_Level Highly_Unstable and there is an
\* UNSTABLE_ENROLMENT alert; when every region has the variance 0 there is
\* none
C27_LargeVarianceUnstable ==
  (pc = "done") =>
    /\ (\E k \in Regions(scored_data) : FGt(VarianceOfCeps(scored_data, k), Dec(2, 8)))
         => LargestIsUnstable
    /\ NoVarianceNoAlert

\* two regions, one with a variance above 2 * 10^-8 whose rows are unstable
\* and one of a single period that is stable
C27_OneRegionUnstable ==
  /\ pc = "done"
  /\ Cardinality(Regions(scored_data)) = 2
  /\ \E k \in Regions(scored_data) : FGt(VarianceOfCeps(scored_data, k), Dec(2, 8))
  /\ \E k \in Regions(scored_data) : VarianceOfCeps(scored_data, k) = FZero
  /\ \E i \in 1..NRows(scored_data) : scored_data.rows[i]["LISS"] = FOne
  /\ Len(OfType(alerts, "UNSTABLE_ENROLMENT")) = 2

\* the sum of the column c of df
ColumnSum(df, c) == SSum(Col(df, c))

\* C28: counts are conserved through aggregation.  The sum of C over the
\* parameter table is the sum of Enrolment_Count over the cleaned rows of
\* Child, and that of A the sum over the rows of Adult; every row of the
\* regional summary has Total_Enrolments = Total_Child + Total_Adult; the
\* sums of Total_Child over the regional summary and over the state summary
\* are the sum of C over the scored table, and likewise for Total_Adult
C28_CountsConserved ==
  /\ (~clean_data.none /\ ~params.parameters.none) =>
       /\ ColumnSum(params.parameters, "C") = SumOfAge(clean_data, S_Child)
       /\ ColumnSum(params.parameters, "A") = SumOfAge(clean_data, S_Adult)
  /\ (pc = "state_summarized") =>
       /\ ColumnSum(call.ret, "Total_Child") = ColumnSum(scored_data, "C")
       /\ ColumnSum(call.ret, "Total_Adult") = ColumnSum(scored_data, "A")
  /\ (pc = "summarized") =>
       /\ \A g \in 1..NRows(call.ret) :
            call.ret.rows[g]["Total_Enrolments"]
              = FAdd(call.ret.rows[g]["Total_Child"], call.ret.rows[g]["Total_Adult"])
       /\ ColumnSum(call.ret, "Total_Child") = ColumnSum(scored_data, "C")
       /\ ColumnSum(call.ret, "Total_Adult") = ColumnSum(scored_data, "A")
       /\ \A st \in {get_state_summary(models, scored_data).ret} :
            /\ ColumnSum(call.ret, "Total_Child") = ColumnSum(st, "Total_Child")
            /\ ColumnSum(call.ret, "Total_Adult") = ColumnSum(st, "Total_Adult")

\* five cleaned rows of two regions, summarized in two rows: 13 children and
\* 200 adults in all
C28_TwoRegionsSummed ==
  /\ pc = "summarized"
  /\ NRows(clean_data) = 5
  /\ NRows(params.parameters) = 4
  /\ NRows(call.ret) = 2
  /\ ColumnSum(call.ret, "Total_Child") = F(13)
  /\ ColumnSum(call.ret, "Total_Adult") = F(200)
  /\ SumOfAge(clean_data, S_Child) = F(13)

\* C29: clean_data_pipeline is idempotent.  Cleaning a cleaned table raises
\* nothing and returns the same rows in the same order with the same values
\* in every field, State, District, Age_Group and YearMonth among them, and
\* the handler keeps that table as clean_data
C29_CleanIdempotent ==
  /\ (~clean_data.none) =>
       \A r \in {clean_data_pipeline(handler, clean_data)} :
          /\ r.exc = "none"
          /\ r.ret.cols = clean_data.cols
          /\ r.ret.index = clean_data.index
          /\ r.ret.rows = clean_data.rows
          /\ r.arg = clean_data
  /\ (pc = "recleaned") =>
       /\ call.ret.rows = clean_data.rows
       /\ call.ret.index = clean_data.index
       /\ handler.clean_data = clean_data

\* a table of two rows cleaned twice: the state was written in lower case
\* and is the compound name of the synonym map, the label of the second row
\* was a plural in upper case between spaces
C29_CompoundStateRecleaned ==
  /\ pc = "recleaned"
  /\ NRows(raw) = 2
  /\ NRows(call.ret) = 2
  /\ raw.rows[1]["State"] = Str(S_andaman)
  /\ call.ret.rows[1]["State"] = Str(S_Andaman)
  /\ raw.rows[2]["Age_Group"] = Str(S_adults)
  /\ call.ret.rows[2]["Age_Group"] = Str(S_Adult)
  /\ call.ret.rows[1]["YearMonth"] = clean_data.rows[1]["YearMonth"]

\* C30: the parameter table does not depend on the order of the rows of the
\* raw table.  Cleaning, normalizing and extracting the table of the run
\* with its rows in any other order raises nothing and gives the parameter
\* table of the run: the same rows in the same order under the same index.
\* The scored table, the anomaly subsets and the alerts are computed from
\* that table alone
C30_OrderOfRows ==
  (pc = "reordered") =>
     /\ call.ret.rows = params.parameters.rows
     /\ call.ret.index = params.parameters.index
     /\ call.ret.cols = params.parameters.cols
     /\ compute_all_scores(models, call.ret).ret = compute_all_scores(models, params.parameters).ret

\* two rows of the same region, period and age group read in the other
\* order: the cleaned tables differ and the one row of parameters is the same
C30_SwappedRowsOfOneCell ==
  /\ pc = "reordered"
  /\ call.input = <<2, 1>>
  /\ raw.rows[1] = WithAge(Str(S_adults))
  /\ raw.rows[2]["Enrolment_Count"] = Str(S_6_99999999)
  /\ clean_data.rows[1]["Enrolment_Count"] = F(3)
  /\ handler.clean_data.rows[1]["Enrolment_Count"] = Dec(699999999, 8)
  /\ NRows(call.ret) = 1
  /\ call.ret.rows[1]["A"] = Dec(999999999, 8)

====
